---------------------------- MODULE Spec2Model ----------------------------
(***************************************************************************)
(* Smart Web Assistant, content script (src/content.js): the page-text     *)
(* extractor, the sentence ranker and the highlighter of ContentAnalyzer,  *)
(* as a state machine over a small DOM; with it the message listener of    *)
(* the background service (src/unnamed/part_000), the injection of the     *)
(* content script, and the API key of EnvLoader (src/env-loader.js) and    *)
(* GeminiClient (src/ai/gemini-client.js).                                 *)
(*                                                                         *)
(* JavaScript strings are TLA+ strings (Len, SubSeq and \o work on them in *)
(* TLC).  SANY reads ASCII only, so the non-ASCII characters of the source *)
(* are written with ASCII stand-ins, each noted where it is used.          *)
(***************************************************************************)
EXTENDS Integers, Sequences, FiniteSets, TLC

VARIABLES
    head,       \* children of document.head (a sequence of nodes)
    body,       \* document.body (a node, see the DOM section)
    pc,         \* "idle", or "pass": highlightImportantContent is suspended at its await
    passes,     \* number of highlightImportantContent calls so far
    timers,     \* pending 10 s timers of showSummaryPopup, each named by its popup
    hist,       \* the last two calls on the analyzer, oldest first
    text,       \* argument of findImportantSentences
    ranked,     \* its result
    rankDone,   \* whether findImportantSentences has returned
    extracted,  \* result of the last extractTextContent ("" before any)
    injections, \* times content.js has been run in the page
    listeners,  \* listeners the content script has added to chrome.runtime.onMessage
    loaded,     \* window.smartWebAssistantLoaded
    analyzer,   \* whether window.contentAnalyzer is defined
    request,    \* the last message delivered to a listener
    sent,       \* the payloads sendResponse was called with for it, in order
    delivered,  \* whether a response reached the sender of it
    settings,   \* chrome.storage.sync as the background service uses it
    scoreArg,   \* argument of scoreSentence
    scoreResult, \* its result in thousandths (-1 before the call)
    storageKey, \* GEMINI_API_KEY in chrome.storage.sync ("" when not set)
    envKey,     \* window.envLoader.env.GEMINI_API_KEY
    load,       \* the loadFromStorage the EnvLoader constructor started
    save,       \* the saveApiKey call that is under way, if one is
    saved,      \* argument of the last saveApiKey that completed ("" before any)
    clientKey,  \* apiKey of the GeminiClient ("" before it is constructed)
    gen,        \* the generateText call in progress
    fetches,    \* the fetch requests of that call, in order
    currentTab, \* this.currentTab of the popup
    isProcessing, \* this.isProcessing of the popup
    flights,    \* the operations of the popup that are at an await, by slot
    ended       \* how the operation that ended last ended

docVars == <<head, body, pc, passes, timers, hist, extracted>>
rankVars == <<text, ranked, rankDone>>
injVars == <<injections, listeners, loaded, analyzer>>
msgVars == <<request, sent, delivered>>
scoreVars == <<scoreArg, scoreResult>>
envVars == <<storageKey, envKey, load, save, saved>>
keyVars == <<storageKey, envKey, load, save, saved, clientKey, gen, fetches>>
popupVars == <<currentTab, isProcessing, flights, ended>>

vars == <<head, body, pc, passes, timers, hist, text, ranked, rankDone, extracted,
          injections, listeners, loaded, analyzer, request, sent, delivered, settings,
          scoreArg, scoreResult, storageKey, envKey, load, save, saved, clientKey, gen,
          fetches, currentTab, isProcessing,
          flights, ended>>

----------------------------------------------------------------------------
(* Bounds of the model.                                                    *)

\* most fragments a ranker input is built from
MaxPieces == 7
\* most highlightImportantContent calls in one run
MaxPasses == 2
\* most marker elements in the document when highlightSentences is called directly
MaxMarkers == 2
\* most characters by which an extraction input exceeds the cap
MaxOver == 2
\* most runs of content.js in one page
MaxInjections == 3
\* most operations of the popup that are at an await at the same time
MaxFlights == 2

(* Program constants.                                                      *)

\* s.trim().length > 20
MinSentenceLength == 20
\* .slice(0, 5)
TopN == 5
\* text.substring(0, 15000)
MaxTextLength == 15000

----------------------------------------------------------------------------
(* JavaScript string primitives.                                           *)

Min(a, b) == IF a <= b THEN a ELSE b
Max(a, b) == IF a >= b THEN a ELSE b

Ch(s, i) == SubSeq(s, i, i)

\* the characters \s matches, of those the model's texts use
IsWs(c) == c \in {" ", "\n", "\t"}

\* String.prototype.substring(a, b), both clamped to the length
substring(s, a, b) == SubSeq(s, Min(a, Len(s)) + 1, Min(b, Len(s)))

\* String.prototype.substring(a)
substringFrom(s, a) == SubSeq(s, Min(a, Len(s)) + 1, Len(s))

RECURSIVE SkipWsLeft(_, _)
SkipWsLeft(s, i) == IF i <= Len(s) /\ IsWs(Ch(s, i)) THEN SkipWsLeft(s, i + 1) ELSE i

RECURSIVE SkipWsRight(_, _)
SkipWsRight(s, j) == IF j >= 1 /\ IsWs(Ch(s, j)) THEN SkipWsRight(s, j - 1) ELSE j

\* String.prototype.trim
trim(s) ==
    LET i == SkipWsLeft(s, 1)
        j == SkipWsRight(s, Len(s))
    IN IF i > j THEN "" ELSE SubSeq(s, i, j)

\* String.prototype.indexOf: the first 0-based position of t in s, or -1
indexOf(s, t) ==
    LET hits == {i \in 0..(Len(s) - Len(t)) : SubSeq(s, i + 1, i + Len(t)) = t}
    IN IF hits = {} THEN -1 ELSE CHOOSE i \in hits : \A j \in hits : i <= j

\* String.prototype.includes
includes(s, t) == \E i \in 0..(Len(s) - Len(t)) : SubSeq(s, i + 1, i + Len(t)) = t

UpperCase == "ABCDEFGHIJKLMNOPQRSTUVWXYZ"
LowerCase == "abcdefghijklmnopqrstuvwxyz"

LowerCh(c) ==
    IF \E i \in 1..Len(UpperCase) : Ch(UpperCase, i) = c
    THEN Ch(LowerCase, CHOOSE i \in 1..Len(UpperCase) : Ch(UpperCase, i) = c)
    ELSE c

\* String.prototype.toLowerCase
RECURSIVE toLowerCase(_)
toLowerCase(s) ==
    IF Len(s) = 0 THEN ""
    ELSE IF Len(s) = 1 THEN LowerCh(s)
    ELSE LET m == Len(s) \div 2
         IN toLowerCase(SubSeq(s, 1, m)) \o toLowerCase(SubSeq(s, m + 1, Len(s)))

\* s.replace(/\s+/g, ' '): every maximal run of whitespace becomes one space.  The
\* two halves are collapsed apart and a run that spans the cut is joined again.
RECURSIVE replaceWhitespaceRuns(_)
replaceWhitespaceRuns(s) ==
    IF Len(s) = 0 THEN ""
    ELSE IF Len(s) = 1 THEN (IF IsWs(s) THEN " " ELSE s)
    ELSE LET m == Len(s) \div 2
             l == replaceWhitespaceRuns(SubSeq(s, 1, m))
             r == replaceWhitespaceRuns(SubSeq(s, m + 1, Len(s)))
         IN IF Ch(l, Len(l)) = " " /\ Ch(r, 1) = " "
            THEN l \o SubSeq(r, 2, Len(r))
            ELSE l \o r

\* s.replace(/\n\s*\n/g, '\n'): from a newline, the longest whitespace run that ends
\* in a newline becomes one newline.
RECURSIVE replaceBlankLines(_)
replaceBlankLines(s) ==
    IF ~(\E i \in 1..Len(s) : Ch(s, i) = "\n") THEN s
    ELSE LET i == CHOOSE k \in 1..Len(s) :
                      Ch(s, k) = "\n" /\ \A h \in 1..(k - 1) : Ch(s, h) # "\n"
             e == SkipWsLeft(s, i) - 1
             ends == {k \in (i + 1)..e : Ch(s, k) = "\n"}
         IN IF ends = {}
            THEN SubSeq(s, 1, e) \o replaceBlankLines(SubSeq(s, e + 1, Len(s)))
            ELSE LET j == CHOOSE k \in ends : \A h \in ends : h <= k
                 IN SubSeq(s, 1, i) \o replaceBlankLines(SubSeq(s, j + 1, Len(s)))

----------------------------------------------------------------------------
(* The ranker: findImportantSentences and scoreSentence.                   *)

IsTerminator(c) == c \in {".", "!", "?"}

RECURSIVE SkipTerminators(_, _)
SkipTerminators(s, i) ==
    IF i <= Len(s) /\ IsTerminator(Ch(s, i)) THEN SkipTerminators(s, i + 1) ELSE i

\* text.split(/[.!?]+/): the pieces between the runs of terminators; a run at either
\* end leaves an empty piece there, and a text without a terminator is one piece.
RECURSIVE split(_)
split(s) ==
    IF ~(\E i \in 1..Len(s) : IsTerminator(Ch(s, i))) THEN <<s>>
    ELSE LET i == CHOOSE k \in 1..Len(s) :
                      IsTerminator(Ch(s, k)) /\ \A h \in 1..(k - 1) : ~IsTerminator(Ch(s, h))
             j == SkipTerminators(s, i)
         IN <<SubSeq(s, 1, i - 1)>> \o split(SubSeq(s, j, Len(s)))

\* faulty variant: the length is taken before trimming
qualifiesUntrimmed(s) == Len(s) > MinSentenceLength

\* faulty variant: a digit of the threshold is lost
qualifiesLoose(s) == Len(trim(s)) > 2

\* the filter of line 233: s => s.trim().length > 20
qualifies(s) == Len(trim(s)) > MinSentenceLength

\* The keyword list of scoreSentence.  The first five are the Korean words of the
\* source, written as ASCII romanisations.
keywords ==
    <<"jungyo", "haeksim", "juyo", "gyeollon", "yoyak", "key", "important", "main", "summary">>

\* faulty variant: the keyword is looked up as written, and once per occurrence
keywordOccurrences(sentence) ==
    LET at(i) == {p \in 1..(Len(sentence) - Len(keywords[i]) + 1) :
                    SubSeq(sentence, p, p + Len(keywords[i]) - 1) = keywords[i]}
        count[i \in 0..Len(keywords)] ==
            IF i = 0 THEN 0 ELSE count[i - 1] + Cardinality(at(i))
    IN count[Len(keywords)]

\* the keywords.forEach of scoreSentence: +1 for each keyword the sentence includes
keywordHits(sentence) ==
    LET lowered == toLowerCase(sentence)
    IN Cardinality({i \in 1..Len(keywords) : includes(lowered, toLowerCase(keywords[i]))})

\* scoreSentence, in thousandths: sentence.length / 100 is 10 * length thousandths and
\* sentence.length / 1000 is length thousandths, so every term is an integer here.
scoreSentence(sentence) ==
    Min(10 * Len(sentence), 2000)
        + 1000 * keywordHits(sentence)
        + Max(0, 1000 - Len(sentence))

\* scoredSentences: text is trimmed, score is taken of the untrimmed fragment
scoreAll(sentences) ==
    [i \in 1..Len(sentences) |->
        [text |-> trim(sentences[i]), score |-> scoreSentence(sentences[i])]]

\* faulty variant: an unstable sort, equal scores change places
RECURSIVE insertBeforeEqual(_, _)
insertBeforeEqual(sorted, x) ==
    IF sorted = <<>> THEN <<x>>
    ELSE IF Head(sorted).score > x.score
         THEN <<Head(sorted)>> \o insertBeforeEqual(Tail(sorted), x)
         ELSE <<x>> \o sorted

\* Array.prototype.sort((a, b) => b.score - a.score): descending by score and stable
\* (ECMAScript 2019), so equal scores keep their order.  x comes after every element
\* of the sorted prefix whose score is at least its own.
RECURSIVE insertByScore(_, _)
insertByScore(sorted, x) ==
    IF sorted = <<>> THEN <<x>>
    ELSE IF Head(sorted).score >= x.score
         THEN <<Head(sorted)>> \o insertByScore(Tail(sorted), x)
         ELSE <<x>> \o sorted

RECURSIVE sortByScore(_)
sortByScore(seq) ==
    IF seq = <<>> THEN <<>>
    ELSE insertByScore(sortByScore(SubSeq(seq, 1, Len(seq) - 1)), seq[Len(seq)])

\* faulty variant: the slice left out
sliceNothing(seq) == seq

\* .slice(0, 5)
sliceTop(seq) == SubSeq(seq, 1, Min(TopN, Len(seq)))

findImportantSentences(t) ==
    LET sentences == SelectSeq(split(t), qualifies)
        sorted == sliceTop(sortByScore(scoreAll(sentences)))
    IN [i \in 1..Len(sorted) |-> sorted[i].text]

----------------------------------------------------------------------------
(* The DOM.  A node is a record: a text node has tag "#text" and its data  *)
(* in text; an element has its tag, class and id and its children in kids. *)
(* uid tells two elements with equal content apart (the popup a timer      *)
(* closure holds); it is 0 where identity is not used.  A node of the      *)
(* document is named by the path of child indices from document.body.      *)

TextNode(s) == [tag |-> "#text", cls |-> "", id |-> "", uid |-> 0, text |-> s, kids |-> <<>>]

Element(tag, cls, id, kids) ==
    [tag |-> tag, cls |-> cls, id |-> id, uid |-> 0, text |-> "", kids |-> kids]

IsText(n) == n.tag = "#text"

\* an element with attributes other than class and id (attrs is a record of them)
ElementWith(tag, attrs, kids) ==
    [tag |-> tag, cls |-> "", id |-> "", uid |-> 0, text |-> "", kids |-> kids,
     attrs |-> attrs]

\* Element.hasAttribute, as the selectors img[src] and a[href] test it
hasAttribute(n, a) == "attrs" \in DOMAIN n /\ a \in DOMAIN n.attrs

\* the reflected properties alt, title, src and href, and getAttribute where the
\* source reads its result only as a truth value: "" for an absent attribute.  The
\* URLs of the model's documents are absolute, so src and href are the attributes.
getAttribute(n, a) == IF hasAttribute(n, a) THEN n.attrs[a] ELSE ""

\* document.body of a document whose body element is gone: null
NoBody == [tag |-> "#null", cls |-> "", id |-> "", uid |-> 0, text |-> "", kids |-> <<>>]

HasBody(b) == b.tag # "#null"

\* the document as one tree, for the selectors that search all of it
documentElement(h, b) ==
    [tag |-> "HTML", cls |-> "", id |-> "", uid |-> 0, text |-> "",
     kids |-> <<[tag |-> "HEAD", cls |-> "", id |-> "", uid |-> 0, text |-> "", kids |-> h]>>
              \o (IF HasBody(b) THEN <<b>> ELSE <<>>)]

MarkerClass == "smart-assistant-highlight"
PopupId == "smart-assistant-summary"
StylesId == "smart-assistant-styles"

IsMarker(n) == ~IsText(n) /\ n.cls = MarkerClass
IsPopup(n) == ~IsText(n) /\ n.id = PopupId

RECURSIVE Concat(_)
Concat(strs) == IF strs = <<>> THEN "" ELSE Head(strs) \o Concat(Tail(strs))

RECURSIVE Flatten(_)
Flatten(seqs) == IF seqs = <<>> THEN <<>> ELSE Head(seqs) \o Flatten(Tail(seqs))

Front(p) == SubSeq(p, 1, Len(p) - 1)

\* Node.textContent
RECURSIVE textContent(_)
textContent(n) ==
    IF IsText(n) THEN n.text
    ELSE Concat([i \in 1..Len(n.kids) |-> textContent(n.kids[i])])

RECURSIVE nodeAt(_, _)
nodeAt(n, p) == IF p = <<>> THEN n ELSE nodeAt(n.kids[Head(p)], Tail(p))

\* paths of the text nodes under n (whose own path is p), in document order
RECURSIVE textPaths(_, _)
textPaths(n, p) ==
    IF IsText(n) THEN <<p>>
    ELSE Flatten([i \in 1..Len(n.kids) |-> textPaths(n.kids[i], Append(p, i))])

\* paths of the elements under n, n itself left out, in document order
RECURSIVE elementPaths(_, _)
elementPaths(n, p) ==
    Flatten([i \in 1..Len(n.kids) |->
        IF IsText(n.kids[i]) THEN <<>>
        ELSE <<Append(p, i)>> \o elementPaths(n.kids[i], Append(p, i))])

\* parent.replaceChild(fragment, child): the child at path p gives way to nodes
RECURSIVE replaceAt(_, _, _)
replaceAt(n, p, nodes) ==
    LET i == Head(p)
    IN IF Len(p) = 1
       THEN [n EXCEPT !.kids = SubSeq(@, 1, i - 1) \o nodes \o SubSeq(@, i + 1, Len(@))]
       ELSE [n EXCEPT !.kids[i] = replaceAt(@, Tail(p), nodes)]

\* Element.remove() of the element at path p
removeAt(n, p) == replaceAt(n, p, <<>>)

\* Node.normalize(): in the whole subtree, empty text nodes go and adjacent text
\* nodes become one
RECURSIVE mergeText(_)
mergeText(ks) ==
    IF ks = <<>> THEN <<>>
    ELSE LET h == Head(ks)
             rest == mergeText(Tail(ks))
         IN IF ~IsText(h) THEN <<h>> \o rest
            ELSE IF h.text = "" THEN rest
            ELSE IF rest # <<>> /\ IsText(Head(rest))
                 THEN <<TextNode(h.text \o Head(rest).text)>> \o Tail(rest)
                 ELSE <<h>> \o rest

RECURSIVE normalize(_)
normalize(n) ==
    IF IsText(n) THEN n
    ELSE [n EXCEPT !.kids = mergeText([i \in 1..Len(@) |-> normalize(@[i])])]

RECURSIVE normalizeAt(_, _)
normalizeAt(n, p) ==
    IF p = <<>> THEN normalize(n)
    ELSE [n EXCEPT !.kids[Head(p)] = normalizeAt(@, Tail(p))]

\* document.querySelectorAll('.smart-assistant-highlight'), as paths; head holds no
\* such element
markerPaths(b) == SelectSeq(elementPaths(b, <<>>), LAMBDA p : IsMarker(nodeAt(b, p)))

\* paths of the elements with this id; getElementById returns the first
idPaths(b, id) == SelectSeq(elementPaths(b, <<>>), LAMBDA p : nodeAt(b, p).id = id)

----------------------------------------------------------------------------
(* The highlighter.                                                        *)

\* The forEach of removeHighlights.  The NodeList is static and in document order.
\* Its first member still in the document is the first marker of the document; a
\* member inside a marker unwrapped before it hangs in that detached subtree, where
\* its replaceChild has a parent and changes nothing of the document.
RECURSIVE unwrapHighlights(_)
unwrapHighlights(b) ==
    LET highlights == markerPaths(b)
    IN IF highlights = <<>> THEN b
       ELSE LET p == highlights[1]
                replaced == replaceAt(b, p, <<TextNode(textContent(nodeAt(b, p)))>>)
            IN unwrapHighlights(normalizeAt(replaced, Front(p)))

\* faulty variant: the element is looked up and left in place
removeNone(b, id) == b

\* const popup = document.getElementById(id); if (popup) popup.remove();
removeById(b, id) ==
    LET found == idPaths(b, id)
    IN IF found = <<>> THEN b ELSE removeAt(b, found[1])

\* faulty variant: querySelector in place of querySelectorAll
removeHighlightsFirstOnly(b) ==
    LET highlights == markerPaths(b)
        unwrapped ==
            IF highlights = <<>> THEN b
            ELSE LET p == highlights[1]
                 IN normalizeAt(
                        replaceAt(b, p, <<TextNode(textContent(nodeAt(b, p)))>>), Front(p))
    IN [body |-> removeById(unwrapped, PopupId), threw |-> FALSE]

\* removeHighlights: nothing in it can throw
removeHighlights(b) ==
    [body |-> removeById(unwrapHighlights(b), PopupId), threw |-> FALSE]

\* isValidTextNode: every text node under body has a parent element
isValidTextNode(b, p) ==
    /\ nodeAt(b, Front(p)).tag \notin {"SCRIPT", "STYLE"}
    /\ Len(trim(nodeAt(b, p).text)) > 0

\* the marker span: setting textContent to "" leaves it without children
highlightSpan(highlightedText) ==
    Element("SPAN", MarkerClass, "",
            IF highlightedText = "" THEN <<>> ELSE <<TextNode(highlightedText)>>)

\* faulty variant: afterText starts one character late
highlightTextInNodeLate(b, p, nodeText, detached, sentence) ==
    LET index == indexOf(nodeText, sentence)
        fragment ==
            (IF index > 0 THEN <<TextNode(substring(nodeText, 0, index))>> ELSE <<>>)
                \o <<highlightSpan(sentence)>>
                \o <<TextNode(substringFrom(nodeText, index + Len(sentence) + 1))>>
    IN IF index = -1 THEN [body |-> b, threw |-> FALSE, detached |-> detached]
       ELSE IF detached THEN [body |-> b, threw |-> TRUE, detached |-> TRUE]
       ELSE [body |-> replaceAt(b, p, fragment), threw |-> FALSE, detached |-> TRUE]

\* highlightTextInNode(node, text).  node is the text node with data nodeText that
\* was at path p when the walker returned it; detached says that an earlier call has
\* already replaced it, so that node.parentNode is null and parent.replaceChild
\* throws a TypeError (after the fragment is built, before anything is changed).
highlightTextInNode(b, p, nodeText, detached, sentence) ==
    LET index == indexOf(nodeText, sentence)
        beforeText == substring(nodeText, 0, index)
        highlightedText == substring(nodeText, index, index + Len(sentence))
        afterText == substringFrom(nodeText, index + Len(sentence))
        fragment ==
            (IF beforeText # "" THEN <<TextNode(beforeText)>> ELSE <<>>)
                \o <<highlightSpan(highlightedText)>>
                \o (IF afterText # "" THEN <<TextNode(afterText)>> ELSE <<>>)
    IN IF index = -1 THEN [body |-> b, threw |-> FALSE, detached |-> detached]
       ELSE IF detached THEN [body |-> b, threw |-> TRUE, detached |-> TRUE]
       ELSE [body |-> replaceAt(b, p, fragment), threw |-> FALSE, detached |-> TRUE]

\* the sentences.forEach of highlightSentences on one node; an exception ends it
RECURSIVE forEachSentence(_, _, _, _, _)
forEachSentence(b, p, nodeText, detached, sentences) ==
    IF sentences = <<>> THEN [body |-> b, threw |-> FALSE, detached |-> detached]
    ELSE IF includes(nodeText, Head(sentences))
         THEN LET r == highlightTextInNode(b, p, nodeText, detached, Head(sentences))
              IN IF r.threw THEN r
                 ELSE forEachSentence(r.body, p, nodeText, r.detached, Tail(sentences))
         ELSE forEachSentence(b, p, nodeText, detached, Tail(sentences))

\* walker.nextNode() after the node at position k of the walk (0 for null).  The
\* TreeWalker keeps a replaced node as its current node; that node has no sibling and
\* no parent left, so the next call finds nothing and returns null.
nextNode(paths, k, detached) ==
    IF detached \/ k >= Len(paths) THEN 0 ELSE k + 1

\* the while loop of highlightSentences.  Until the first replacement the document is
\* the one the walk started on, and after it the walk ends, so the text nodes the
\* walker returns are those listed at the start.
RECURSIVE walkTextNodes(_, _, _, _)
walkTextNodes(b, paths, k, sentences) ==
    IF k = 0 THEN [body |-> b, threw |-> FALSE]
    ELSE LET p == paths[k]
         IN IF isValidTextNode(b, p)
            THEN LET r == forEachSentence(b, p, nodeAt(b, p).text, FALSE, sentences)
                 IN IF r.threw THEN [body |-> r.body, threw |-> TRUE]
                    ELSE IF r.detached
                         THEN walkTextNodes(r.body, paths, nextNode(paths, k, TRUE), sentences)
                         ELSE walkTextNodes(b, paths, nextNode(paths, k, FALSE), sentences)
            ELSE walkTextNodes(b, paths, nextNode(paths, k, FALSE), sentences)

highlightSentences(b, sentences) ==
    LET paths == textPaths(b, <<>>)
    IN walkTextNodes(b, paths, IF paths = <<>> THEN 0 ELSE 1, sentences)

----------------------------------------------------------------------------
(* The summary popup.                                                      *)

\* createSummaryPopup: the div and the children its innerHTML parses to.  uid is the
\* identity of the element.  "x" stands for the multiplication sign of the button
\* and "*" for the two emoji.
createSummaryPopup(uid) ==
    [Element("DIV", "", PopupId,
        << TextNode("\n "),
           Element("BUTTON", "", "", <<TextNode("x")>>),
           TextNode("\n "),
           Element("H3", "", "", <<TextNode("* Page Summary")>>),
           TextNode("\n "),
           Element("P", "", "",
               <<TextNode("This page has been analyzed and important content has been highlighted. Key information is marked with sparkles (*) for easy identification.")>>),
           TextNode("\n ") >>)
     EXCEPT !.uid = uid]

\* removeExistingPopup
removeExistingPopup(b) == removeById(b, PopupId)

\* showSummaryPopup without its setTimeout: document.body.appendChild(popup)
showSummaryPopup(b, uid) ==
    LET cleared == removeExistingPopup(b)
    IN [cleared EXCEPT !.kids = Append(@, createSummaryPopup(uid))]

\* paths of the element a timer closure holds, while it is in the document
uidPaths(b, uid) == SelectSeq(elementPaths(b, <<>>), LAMBDA p : nodeAt(b, p).uid = uid)

\* faulty variant: the callback looks the popup up by its id
timeoutRemovesById(b, uid) == removeById(b, PopupId)

\* faulty variant: the callback leaves the popup where it is
timeoutKeepsPopup(b, uid) == b

\* the timeout callback: if (popup.parentNode) popup.remove();
timeoutCallback(b, uid) ==
    LET found == uidPaths(b, uid)
    IN IF found = <<>> THEN b ELSE removeAt(b, found[1])

----------------------------------------------------------------------------
(* The extractor.                                                          *)

RemovedTags == {"SCRIPT", "STYLE", "NAV", "HEADER", "FOOTER", "ASIDE"}
RemovedClasses == {"ad", "advertisement", "sidebar"}

\* faulty variant: the class selectors left out
matchesRemovedTags(n) == ~IsText(n) /\ n.tag \in RemovedTags

\* the selector of line 142
matchesRemoved(n) == ~IsText(n) /\ (n.tag \in RemovedTags \/ n.cls \in RemovedClasses)

\* faulty variant: nothing is removed
removeNothing(ks) == ks

\* elementsToRemove.forEach(el => el.remove()), on the children of one node
RECURSIVE removeMatching(_)
removeMatching(ks) ==
    LET kept == SelectSeq(ks, LAMBDA n : ~matchesRemoved(n))
    IN [i \in 1..Len(kept) |->
           IF IsText(kept[i]) THEN kept[i]
           ELSE [kept[i] EXCEPT !.kids = removeMatching(@)]]

MainTags == {"MAIN", "ARTICLE"}
MainClasses == {"content", "post", "entry", "main-content", "page-content"}

\* document.querySelector(...) || document.body, as a path; head, html and body carry
\* none of these tags and classes
mainContent(b) ==
    LET found == SelectSeq(elementPaths(b, <<>>),
                           LAMBDA p : nodeAt(b, p).tag \in MainTags
                                        \/ nodeAt(b, p).cls \in MainClasses)
    IN IF found = <<>> THEN <<>> ELSE found[1]

InlineTags == {"SPAN", "A", "B", "EM"}

\* The text an element renders: an inline element adds nothing to its text, any
\* other element is set off by line breaks.
RECURSIVE renderedText(_)
renderedText(n) ==
    IF IsText(n) THEN n.text
    ELSE LET inner == Concat([i \in 1..Len(n.kids) |-> renderedText(n.kids[i])])
         IN IF n.tag \in InlineTags THEN inner ELSE "\n" \o inner \o "\n"

\* HTMLElement.innerText, up to the amount and kind of whitespace between words,
\* which extractTextContent collapses before anything reads it; empty when nothing
\* but whitespace is rendered.  Nothing in the model's documents is hidden by CSS.
innerText(n) ==
    LET t == Concat([i \in 1..Len(n.kids) |-> renderedText(n.kids[i])])
    IN IF Len(trim(t)) = 0 THEN "" ELSE t

\* the third accessor: the trimmed data of the non-blank text nodes, joined by spaces
RECURSIVE joinWithSpaces(_)
joinWithSpaces(strs) ==
    IF strs = <<>> THEN ""
    ELSE IF Len(strs) = 1 THEN strs[1]
    ELSE strs[1] \o " " \o joinWithSpaces(Tail(strs))

walkerText(n) ==
    LET paths == textPaths(n, <<>>)
        datas == [i \in 1..Len(paths) |-> nodeAt(n, paths[i]).text]
        kept == SelectSeq(datas, LAMBDA d : Len(trim(d)) > 0)
    IN joinWithSpaces([i \in 1..Len(kept) |-> trim(kept[i])])

\* lines 178-181
cleanText(t) == trim(replaceBlankLines(replaceWhitespaceRuns(t)))

\* faulty variant: the cut marked as the API client marks its own
capTextWithEllipsis(t) ==
    IF Len(t) > MaxTextLength THEN substring(t, 0, MaxTextLength) \o "..." ELSE t

\* text.substring(0, 15000)
capText(t) == substring(t, 0, MaxTextLength)

\* extractTextContent: the document after the removal, and the text returned
extractTextContent(h, b) ==
    LET h2 == removeMatching(h)
        b2 == [b EXCEPT !.kids = removeMatching(@)]
        root == nodeAt(b2, mainContent(b2))
        raw == IF innerText(root) # "" THEN innerText(root)
               ELSE IF textContent(root) # "" THEN textContent(root)
               ELSE walkerText(root)
    IN [head |-> h2, body |-> b2, text |-> capText(cleanText(raw)),
        threw |-> ~HasBody(b)]

\* the elements document.querySelectorAll goes over, in document order
AllElements(h, b) ==
    LET d == documentElement(h, b)
        ps == elementPaths(d, <<>>)
    IN [i \in 1..Len(ps) |-> nodeAt(d, ps[i])]

\* extractImages
extractImages(h, b) ==
    LET imgs == SelectSeq(AllElements(h, b), LAMBDA n : n.tag = "IMG" /\ hasAttribute(n, "src"))
    IN [i \in 1..Len(imgs) |->
           [src |-> getAttribute(imgs[i], "src"),
            alt |-> getAttribute(imgs[i], "alt"),
            title |-> getAttribute(imgs[i], "title")]]

\* extractLinks
extractLinks(h, b) ==
    LET links == SelectSeq(AllElements(h, b), LAMBDA n : n.tag = "A" /\ hasAttribute(n, "href"))
    IN [i \in 1..Len(links) |->
           [href |-> getAttribute(links[i], "href"),
            text |-> trim(textContent(links[i])),
            title |-> getAttribute(links[i], "title")]]

HeadingTags == {"H1", "H2", "H3", "H4", "H5", "H6"}

\* parseInt(heading.tagName.charAt(1))
headingLevel(tag) ==
    LET c == Ch(tag, 2)   \* charAt(1): the second character
    IN CASE c = "1" -> 1 [] c = "2" -> 2 [] c = "3" -> 3
         [] c = "4" -> 4 [] c = "5" -> 5 [] c = "6" -> 6

\* extractHeadings
extractHeadings(h, b) ==
    LET headings == SelectSeq(AllElements(h, b), LAMBDA n : n.tag \in HeadingTags)
    IN [i \in 1..Len(headings) |->
           [level |-> headingLevel(headings[i].tag),
            text |-> trim(textContent(headings[i])),
            id |-> headings[i].id]]

\* the name extractMetadata files a meta tag under
metaName(n) ==
    IF getAttribute(n, "name") # "" THEN getAttribute(n, "name")
    ELSE getAttribute(n, "property")

\* extractMetadata: a later tag of the same name overwrites an earlier one
extractMetadata(h, b) ==
    LET metas == SelectSeq(AllElements(h, b), LAMBDA n : n.tag = "META")
        kept == SelectSeq(metas, LAMBDA n : metaName(n) # "" /\ getAttribute(n, "content") # "")
        names == {metaName(kept[i]) : i \in 1..Len(kept)}
        last(nm) == CHOOSE i \in 1..Len(kept) :
                        /\ metaName(kept[i]) = nm
                        /\ \A j \in (i + 1)..Len(kept) : metaName(kept[j]) # nm
    IN [nm \in names |-> getAttribute(kept[last(nm)], "content")]

\* document.title and window.location.href of the model's pages
DocumentTitle == "Sample page"
LocationHref == "https://example.org/page"

\* getPageContent: the properties are evaluated in order, so the lists are read from
\* the document extractTextContent has already stripped.  threw says that the promise
\* rejects (the TypeError of mainContent.innerText on a null body).
getPageContent(h, b) ==
    LET r == extractTextContent(h, b)
    IN IF r.threw
       THEN [head |-> r.head, body |-> r.body, threw |-> TRUE, content |-> [text |-> ""]]
       ELSE [head |-> r.head, body |-> r.body, threw |-> FALSE,
             content |-> [title |-> DocumentTitle,
                          url |-> LocationHref,
                          text |-> r.text,
                          images |-> extractImages(r.head, r.body),
                          links |-> extractLinks(r.head, r.body),
                          headings |-> extractHeadings(r.head, r.body),
                          metadata |-> extractMetadata(r.head, r.body)]]

\* searchInPage after its await: the results for a query.  hasQuery is false for a
\* request without a query field, whose query.toLowerCase() is a TypeError.
searchResults(content, query) ==
    LET queryLower == toLowerCase(query)
        inText == IF includes(toLowerCase(content.text), queryLower)
                  THEN <<[type |-> "text",
                          content |-> "Found \"" \o query \o "\" in page content",
                          relevance |-> 1]>>
                  ELSE <<>>
        hits == SelectSeq(content.headings,
                          LAMBDA hd : includes(toLowerCase(hd.text), queryLower))
    IN inText \o [i \in 1..Len(hits) |->
                     [type |-> "heading", content |-> hits[i].text, relevance |-> 2]]

\* searchInPage(query) on the document: the extraction and then the results
searchInPage(h, b, req) ==
    LET r == getPageContent(h, b)
    IN IF r.threw \/ "query" \notin DOMAIN req
       THEN [head |-> r.head, body |-> r.body, threw |-> TRUE, results |-> <<>>,
             content |-> r.content]
       ELSE [head |-> r.head, body |-> r.body, threw |-> FALSE,
             results |-> searchResults(r.content, req.query), content |-> r.content]

----------------------------------------------------------------------------
(* Documents and inputs.                                                   *)

S1 == "The key point is stated here"
S2 == "Another plain sentence follows it"

Para(t) == Element("P", "", "", <<TextNode(t)>>)

Page(kids) == Element("BODY", "", "", kids)

\* two ranked sentences in one text node, between a nav bar and a script
ArticlePage ==
    Page(<< Element("NAV", "", "", <<TextNode("Home")>>),
            Para(S1 \o ". " \o S2 \o "."),
            Para("Short one."),
            Element("SCRIPT", "", "", <<TextNode("var x = 1;")>>) >>)

\* the two sentences in a paragraph each
TwoParagraphPage == Page(<< Para(S1 \o "."), Para(S2 \o ".") >>)

\* a main element; the text outside it is walked by the highlighter and not extracted
MainPage ==
    Page(<< Element("DIV", "sidebar", "", <<TextNode("Ads here")>>),
            Element("MAIN", "", "", <<Para(S2 \o ".")>>),
            Para(S1 \o ", outside main.") >>)

\* nothing long enough to rank
ShortPage == Page(<< Para("Short one.") >>)

\* a ranked sentence between a header, an advertisement and a footer whose own
\* sentences would outrank it
NoisyPage ==
    Page(<< Element("HEADER", "", "",
                <<Para("The main menu is an important summary of key links.")>>),
            Para(S1 \o "."),
            Element("DIV", "advertisement", "",
                <<TextNode("Buy the important key product of the main summary now!")>>),
            Element("FOOTER", "", "", <<TextNode("Footer note")>>) >>)

InitBodies == {ArticlePage, TwoParagraphPage, MainPage, ShortPage, NoisyPage}

\* headings, images and links, some of them in elements the extraction removes, some
\* without the attribute the selector asks for
MediaPage ==
    Page(<< Element("NAV", "", "",
                <<ElementWith("IMG", [src |-> "https://example.org/logo.png"], <<>>),
                  ElementWith("A", [href |-> "https://example.org/"], <<TextNode("Home")>>)>>),
            Element("HEADER", "", "", <<Element("H1", "", "", <<TextNode("Site menu")>>)>>),
            Element("H2", "", "intro", <<TextNode(" Key facts ")>>),
            ElementWith("IMG", [src |-> "https://example.org/a.png", alt |-> "A"], <<>>),
            ElementWith("IMG", [alt |-> "no source"], <<>>),
            Element("P", "", "",
                <<TextNode("See "),
                  ElementWith("A", [href |-> "https://example.org/more", title |-> "More"],
                              <<TextNode(" more ")>>),
                  Element("A", "", "", <<TextNode("anchor")>>)>>) >>)

\* meta tags: one by name, one by property, one name twice, one without content
MediaHead ==
    << ElementWith("META", [name |-> "description", content |-> "first"], <<>>),
       ElementWith("META", [property |-> "og:title", content |-> "Title"], <<>>),
       ElementWith("META", [name |-> "description", content |-> "second"], <<>>),
       ElementWith("META", [name |-> "empty"], <<>>) >>

\* a document with only script and style children and an empty body
ScriptHead ==
    << Element("SCRIPT", "", "", <<TextNode("var x = 1;")>>),
       Element("STYLE", "", "", <<TextNode("p { color: red }")>>) >>

EmptyPage == Page(<<>>)

\* the same with the script and the style in the body
ScriptPage == Page(ScriptHead)

\* the documents of the message specification, as pairs of head and body; the last
\* has lost its body
MessageDocuments ==
    { <<MediaHead, MediaPage>>, <<ScriptHead, EmptyPage>>, <<(<<>>), ScriptPage>>,
      <<(<<>>), NoBody>> }

\* the style element injectStyles appends to document.head
StylesElement == Element("STYLE", "", StylesId, <<TextNode(".smart-assistant-highlight {}")>>)

\* sentence lists for direct calls of highlightSentences
SentenceLists ==
    { <<>>, <<S1>>, <<S2>>, <<S1, S2>>, <<S2, S1>>, <<"key point">>, <<"key point", S1>> }

Queries == {"key", "absent"}

\* Ranker inputs are built from these pieces, fragments with the terminators after
\* them.  "Plain sentence one xx" and "Other sentence two yy" have 21 characters and
\* the same score; " Exactly twenty chars" has 21 and, trimmed, 20;
\* " The key point is here" has 22 and, trimmed, 21, and holds the keyword "key".
Pieces ==
    { "Plain sentence one xx.",
      " Exactly twenty chars?!Other sentence two yy.",
      " The key point is here!" }

LongSentence ==
    "Here is a very long explanatory sentence that goes on for a good while to test the length term of the scoring function and should score highly due to length"

\* the scenario of the specification's section 8
ScenarioText == "This is important. A short one. " \o LongSentence \o "."

RECURSIVE Repeat(_, _)
Repeat(s, n) ==
    IF n = 0 THEN ""
    ELSE IF n % 2 = 0 THEN LET h == Repeat(s, n \div 2) IN h \o h
    ELSE s \o Repeat(s, n - 1)

\* n characters of words of the given shape; unit has 5 characters once cleaned
Words(unit, n) == Repeat(unit, n \div 5) \o Repeat("e", n % 5)

ExtractLengths == {12} \cup ((MaxTextLength - 1)..(MaxTextLength + MaxOver))

\* pages whose cleaned text has a length around the cap, with whitespace to collapse
\* and to trim in some
LongBodies ==
    { Page(<< Para(lead \o Words(unit, n) \o tail) >>) :
        lead \in {"", " \n\t"},
        tail \in {"", "\t \n"},
        unit \in {"abc d", "abc \n d"},
        n \in ExtractLengths }

----------------------------------------------------------------------------
(* The state machine.                                                      *)

Snapshot == [head |-> head, body |-> body]

Call(op, arg, threw) == [op |-> op, arg |-> arg, pre |-> Snapshot, threw |-> threw]

Push(h, e) == IF Len(h) < 2 THEN Append(h, e) ELSE <<h[2], e>>

InitDocument(bodies) ==
    /\ head = <<StylesElement>>
    /\ body \in bodies
    /\ pc = "idle"
    /\ passes = 0
    /\ timers = {}
    /\ hist = <<>>
    /\ extracted = ""

InitRanker(texts) ==
    /\ text \in texts
    /\ ranked = <<>>
    /\ rankDone = FALSE

NoRequest == [to |-> "none", action |-> ""]

\* injected says whether content.js has already run in the page
InitMessaging(injected) ==
    /\ injections = IF injected THEN 1 ELSE 0
    /\ listeners = IF injected THEN 1 ELSE 0
    /\ loaded = injected
    /\ analyzer = injected
    /\ request = NoRequest
    /\ sent = <<>>
    /\ delivered = FALSE

\* setDefaultSettings, but for the version of the manifest
DefaultSettings ==
    [autoHighlight |-> FALSE, summaryLength |-> "medium", language |-> "en",
     theme |-> "light"]

InitSettings == settings = DefaultSettings

\* a web page in the active tab, and a tab without an id (chrome.tabs.TAB_ID_NONE)
ValidTab == [id |-> 7, title |-> "Sample page", url |-> "https://example.org/a"]
NoIdTab == [id |-> -1, title |-> "DevTools", url |-> "devtools://devtools"]

\* no PageContent: undefined
NoContent == [undefined |-> TRUE]

\* how the getPageContent of an operation came to its content: not yet, without a
\* message, or by the answer to its message
NoAnswer(via) == [via |-> via, lastError |-> FALSE, content |-> NoContent]

\* a slot no operation is in
FreeSlot == [kind |-> "none", stage |-> "free", answer |-> NoAnswer("none"),
             content |-> NoContent]

NotEnded == [kind |-> "none", path |-> "none", failed |-> FALSE, value |-> ""]

\* the popup after init(): the active tab is known, the buttons are wired and nothing
\* is in progress
InitPopup(tabs) ==
    /\ currentTab \in tabs
    /\ isProcessing = FALSE
    /\ flights = [i \in 1..MaxFlights |-> FreeSlot]
    /\ ended = NotEnded

InitScoring(sentences) ==
    /\ scoreArg \in sentences
    /\ scoreResult = -1

\* the placeholder of EnvLoader.loadEnv
PlaceholderKey == "YOUR_API_KEY_HERE"

\* no generateText call has been made
GenIdle == [state |-> "idle", attempt |-> 0, prompt |-> "", waits |-> <<>>, result |-> ""]

\* loadFromStorage at its await: chrome.storage.sync.get is not served yet
LoadPending == [state |-> "pending", result |-> ""]

\* no saveApiKey call is under way
SaveIdle == [state |-> "idle", key |-> ""]

\* a page in which env-loader.js has just run, with stored in chrome.storage.sync:
\* loadEnv has set the defaults and started loadFromStorage; no client is constructed
InitStoredKeys(stored) ==
    /\ storageKey = stored
    /\ envKey = PlaceholderKey
    /\ load = LoadPending
    /\ save = SaveIdle
    /\ saved = ""
    /\ clientKey = ""
    /\ gen = GenIdle
    /\ fetches = <<>>

\* the same with nothing stored
InitKeys == InitStoredKeys("")

\* the content script after init(), on one of the pages
Init ==
    /\ InitDocument(InitBodies) /\ InitRanker({""})
    /\ InitMessaging(TRUE) /\ InitSettings /\ InitPopup({ValidTab}) /\ InitScoring({""}) /\ InitKeys

\* faulty variant: a continuation that waits for a task of its own
taskMayStartAnytime(p) == TRUE

\* A message, a timer or a click is served in a task of its own, and a task starts
\* when the one before it and its microtasks are done: never while
\* highlightImportantContent is suspended at the await of line 225, whose promise is
\* already resolved.
taskMayStart(p) == p = "idle"

\* sendResponse of the content-script listener: the port is open when it is called,
\* at once or, after return true, later
Respond(req, payloads) ==
    /\ request' = req
    /\ sent' = payloads
    /\ delivered' = (payloads # <<>>)

ToContent(action) == [to |-> "content", action |-> action]

\* case 'ping'
MsgPing ==
    /\ taskMayStart(pc)
    /\ listeners > 0
    /\ Respond(ToContent("ping"), <<[status |-> "alive"]>>)
    /\ UNCHANGED <<docVars, rankVars, injVars, settings, scoreVars, popupVars, keyVars>>

\* the actions triggerSummarize, triggerHighlight, triggerTranslate and triggerSearch
\* send to the tab
ContextMenuActions ==
    {"summarizePage", "highlightImportantContent", "translatePage", "searchInPage"}

\* actions the listener has no case for; the first two are sent by the background
\* service on a context-menu click
UnknownActions == {"summarizePage", "translatePage", "getPageInfo"}

\* default:
MsgUnknown ==
    /\ taskMayStart(pc)
    /\ listeners > 0
    /\ \E a \in UnknownActions :
        Respond(ToContent(a), <<[success |-> FALSE, error |-> "Unknown action"]>>)
    /\ UNCHANGED <<docVars, rankVars, injVars, settings, scoreVars, popupVars, keyVars>>

\* case 'getPageContent': getPageContent runs to its end when it is called, and the
\* then callback in a microtask after it; a rejected promise has no callback
MsgGetPageContent ==
    /\ taskMayStart(pc)
    /\ listeners > 0
    /\ \E r \in {getPageContent(head, body)} :
          /\ head' = r.head
          /\ body' = r.body
          /\ extracted' = IF r.threw THEN extracted ELSE r.content.text
          /\ hist' = Push(hist, Call("getPageContent", <<>>, r.threw))
          /\ Respond(ToContent("getPageContent"),
                     IF r.threw THEN <<>> ELSE <<[content |-> r.content]>>)
    /\ UNCHANGED <<pc, passes, timers, rankVars, injVars, settings, scoreVars, popupVars, keyVars>>

\* searchInPage requests: with a query, and without the field
SearchRequests ==
    {[to |-> "content", action |-> "searchInPage", query |-> q] : q \in Queries}
        \cup {ToContent("searchInPage")}

\* case 'searchInPage': searchInPage calls getPageContent and only reads after it
MsgSearchInPage ==
    /\ taskMayStart(pc)
    /\ listeners > 0
    /\ \E req \in SearchRequests :
        \E r \in {searchInPage(head, body, req)} :
           /\ head' = r.head
           /\ body' = r.body
           /\ extracted' = IF HasBody(body) THEN r.content.text ELSE extracted
           /\ hist' = Push(hist, Call("searchInPage",
                                      IF "query" \in DOMAIN req THEN <<req.query>> ELSE <<>>,
                                      r.threw))
           /\ Respond(req, IF r.threw THEN <<>> ELSE <<r.results>>)
    /\ UNCHANGED <<pc, passes, timers, rankVars, injVars, settings, scoreVars, popupVars, keyVars>>

\* faulty variant: line 223 left out
clearNothing(b) == [body |-> b, threw |-> FALSE]

\* line 223: what highlightImportantContent does to the markers before anything else
clearBeforePass(b) == removeHighlights(b)

\* case 'highlightImportantContent', up to the await of line 225: removeHighlights
\* and the whole of getPageContent have run when the function suspends, and the
\* listener answers at once.  When getPageContent rejects, so does the function, and
\* nothing of it is left to run.
MsgHighlightImportantContent ==
    /\ taskMayStart(pc)
    /\ listeners > 0
    /\ passes < MaxPasses
    /\ \E r \in {getPageContent(head, clearBeforePass(body).body)} :
          /\ head' = r.head
          /\ body' = r.body
          /\ extracted' = IF r.threw THEN extracted ELSE r.content.text
          /\ pc' = IF r.threw THEN "idle" ELSE "pass"
          /\ hist' = Push(hist, Call("highlightImportantContent", <<>>, r.threw))
    /\ passes' = passes + 1
    /\ Respond(ToContent("highlightImportantContent"), <<[success |-> TRUE]>>)
    /\ UNCHANGED <<timers, rankVars, injVars, settings, scoreVars, popupVars, keyVars>>

\* highlightImportantContent after the await, lines 226-229.  It resumes in a
\* microtask, before any other message, timer or click is served.  An exception of
\* highlightSentences rejects the promise and showSummaryPopup is not reached.
HighlightPass ==
    /\ pc = "pass"
    /\ \E importantSentences \in {findImportantSentences(extracted)} :
       \E r \in {highlightSentences(body, importantSentences)} :
          /\ hist' = Push(hist, Call("highlightPass", importantSentences, r.threw))
          /\ IF r.threw
             THEN body' = r.body /\ timers' = timers
             ELSE body' = showSummaryPopup(r.body, passes) /\ timers' = timers \cup {passes}
    /\ pc' = "idle"
    /\ UNCHANGED <<head, passes, extracted, rankVars, injVars, msgVars, settings,
                   scoreVars, popupVars, keyVars>>

\* case 'removeHighlights'
MsgRemoveHighlights ==
    /\ taskMayStart(pc)
    /\ listeners > 0
    /\ \E r \in {removeHighlights(body)} :
          /\ body' = r.body
          /\ hist' = Push(hist, Call("removeHighlights", <<>>, r.threw))
          /\ Respond(ToContent("removeHighlights"),
                     IF r.threw THEN <<[success |-> FALSE, error |-> "TypeError"]>>
                     ELSE <<[success |-> TRUE]>>)
    /\ UNCHANGED <<head, pc, passes, timers, extracted, rankVars, injVars, settings,
                   scoreVars, popupVars, keyVars>>

\* the setTimeout of showSummaryPopup fires
TimerFires ==
    /\ taskMayStart(pc)
    /\ \E uid \in timers :
        /\ timers' = timers \ {uid}
        /\ body' = timeoutCallback(body, uid)
        /\ hist' = Push(hist, Call("timeout", <<uid>>, FALSE))
    /\ UNCHANGED <<head, pc, passes, extracted, rankVars, injVars, msgVars, settings,
                   scoreVars, popupVars, keyVars>>

\* the user clicks the popup's button: this.parentElement.remove()
DismissPopup ==
    /\ taskMayStart(pc)
    /\ idPaths(body, PopupId) # <<>>
    /\ body' = removeById(body, PopupId)
    /\ hist' = Push(hist, Call("dismiss", <<>>, FALSE))
    /\ UNCHANGED <<head, pc, passes, timers, extracted, rankVars, injVars, msgVars,
                   settings, scoreVars, popupVars, keyVars>>

\* The content script on a page: the requests that read or change the document, the
\* timers and the clicks.
Next ==
    \/ MsgGetPageContent
    \/ MsgSearchInPage
    \/ MsgHighlightImportantContent
    \/ HighlightPass
    \/ MsgRemoveHighlights
    \/ TimerFires
    \/ DismissPopup

Spec == Init /\ [][Next]_vars

\* a timer that setTimeout has set fires once its 10 s are over and no task is running
InitLive ==
    /\ InitDocument({ShortPage, TwoParagraphPage}) /\ InitRanker({""})
    /\ InitMessaging(TRUE) /\ InitSettings /\ InitPopup({ValidTab}) /\ InitScoring({""}) /\ InitKeys

SpecLive == InitLive /\ [][Next]_vars /\ WF_vars(TimerFires)

(* The content script from its injection on, and the background service.   *)

\* faulty variant: neither guard is looked at
shouldRegisterAlways(defined, alreadyLoaded) == TRUE

\* line 7 and line 17: the class is defined and constructed only while
\* window.contentAnalyzer is undefined, and init() goes on only while
\* window.smartWebAssistantLoaded is not set
shouldRegister(defined, alreadyLoaded) == ~defined /\ ~alreadyLoaded

\* injectStyles
injectStyles(h, b) ==
    IF \E i \in 1..Len(AllElements(h, b)) : AllElements(h, b)[i].id = StylesId
    THEN h
    ELSE Append(h, StylesElement)

\* chrome.scripting.executeScript({files: ['content.js']}), by the background service
\* when a tab has loaded and by the popup when its ping got no answer: content.js
\* runs once more in the same isolated world
InjectContentScript ==
    /\ taskMayStart(pc)
    /\ injections < MaxInjections
    /\ injections' = injections + 1
    /\ IF shouldRegister(analyzer, loaded)
       THEN /\ loaded' = TRUE
            /\ listeners' = listeners + 1
            /\ head' = injectStyles(head, body)
       ELSE UNCHANGED <<loaded, listeners, head>>
    /\ analyzer' = TRUE
    /\ UNCHANGED <<body, pc, passes, timers, hist, extracted, rankVars, msgVars,
                   settings, scoreVars, popupVars, keyVars>>

ToBackground(action) == [to |-> "background", action |-> action]

\* the PageContent a generateSummary request carries
SummaryContent == [title |-> "Sample page", text |-> "Short one."]

\* requests to the background service: its seven actions, and actions that are not
\* among them
BackgroundRequests ==
    { [to |-> "background", action |-> "getPageInfo", tab |-> t] : t \in BOOLEAN }
    \cup { ToBackground("analyzeContent"), ToBackground("getSettings"),
           [to |-> "background", action |-> "generateSummary", content |-> SummaryContent],
           [to |-> "background", action |-> "translateText", text |-> "Short one."],
           [to |-> "background", action |-> "searchContent", query |-> "key"],
           [to |-> "background", action |-> "updateSettings", settings |-> [theme |-> "dark"]],
           [to |-> "background", action |-> "updateSettings",
            settings |-> [autoHighlight |-> TRUE]],
           [to |-> "background", action |-> "updateSettings",
            settings |-> [language |-> "ko", summaryLength |-> "short"]] }
    \cup { ToBackground("ping"), ToBackground("highlightImportantContent"),
           ToBackground("toString") }

\* the keys of the handlers object of processMessage
HandlerKeys ==
    {"getPageInfo", "analyzeContent", "generateSummary", "translateText",
     "searchContent", "getSettings", "updateSettings"}

\* functions handlers[request.action] finds on Object.prototype
InheritedKeys == {"toString"}

\* chrome.storage.sync.set(items): the items given replace those of the same key
storageSet(store, items) ==
    [k \in DOMAIN store \cup DOMAIN items |->
        IF k \in DOMAIN items THEN items[k] ELSE store[k]]

\* the handler of a known action: the data it resolves with, or the error it throws
handlerData(req, store) ==
    CASE req.action = "getPageInfo" ->
            IF req.tab
            THEN [ok |-> TRUE,
                  data |-> [url |-> LocationHref, title |-> DocumentTitle,
                            favicon |-> "", timestamp |-> "Date.now()"]]
            ELSE [ok |-> FALSE,
                  error |-> "Cannot read properties of undefined (reading 'url')"]
      [] req.action = "analyzeContent" ->
            [ok |-> TRUE,
             data |-> [sentiment |-> "positive",
                       topics |-> <<"technology", "AI", "web development">>,
                       keyPoints |-> <<"This page discusses modern web technologies",
                                       "AI integration is becoming more common",
                                       "User experience is a key focus">>,
                       confidence |-> "0.85"]]
      [] req.action = "generateSummary" ->
            [ok |-> TRUE,
             data |-> [summary |-> "This page contains information about "
                                      \o req.content.title \o ". Key points include: "
                                      \o substring(req.content.text, 0, 200) \o "...",
                       keyPoints |-> <<"Main topic discussed",
                                       "Important information highlighted",
                                       "Key takeaways provided">>,
                       wordCount |-> Len(req.content.text)]]
      [] req.action = "translateText" ->
            [ok |-> TRUE,
             data |-> [originalText |-> req.text,
                       translatedText |-> "Translated: " \o req.text,
                       sourceLanguage |-> "auto", targetLanguage |-> "en",
                       confidence |-> "0.9"]]
      [] req.action = "searchContent" ->
            [ok |-> TRUE,
             data |-> [query |-> req.query,
                       results |-> <<[text |-> "Found relevant information about \""
                                                  \o req.query \o "\"",
                                      relevance |-> "0.9", position |-> 0]>>,
                       totalResults |-> 1]]
      [] req.action = "getSettings" -> [ok |-> TRUE, data |-> store]
      [] req.action = "updateSettings" -> [ok |-> TRUE, data |-> "undefined"]
      [] req.action = "toString" -> [ok |-> TRUE, data |-> "[object Undefined]"]

\* processMessage and the try/catch of handleMessage around it: the payload
\* sendResponse is called with
processMessage(req, store) ==
    IF req.action \notin HandlerKeys \cup InheritedKeys
    THEN [success |-> FALSE, error |-> "Unknown action"]
    ELSE LET r == handlerData(req, store)
         IN IF r.ok THEN [success |-> TRUE, data |-> r.data]
            ELSE [success |-> FALSE, error |-> r.error]

\* What becomes of a sendResponse called after the listener has returned something
\* other than true.  handleMessage is an async function: it returns a promise, and
\* calls sendResponse after at least one await.  A browser that closes the port when
\* the listener returns drops the response; one that waits for a returned promise
\* delivers it.
PortOutcomes == BOOLEAN

\* handleMessage of the background service
BackgroundMessage ==
    /\ \E req \in BackgroundRequests :
        /\ request' = req
        /\ sent' = <<processMessage(req, settings)>>
        /\ settings' = IF req.action = "updateSettings"
                       THEN storageSet(settings, req.settings)
                       ELSE settings
    /\ \E open \in PortOutcomes : delivered' = open
    /\ UNCHANGED <<docVars, rankVars, injVars, scoreVars, popupVars, keyVars>>

InitMessages ==
    /\ \E d \in MessageDocuments : head = d[1] /\ body = d[2]
    /\ pc = "idle" /\ passes = 0 /\ timers = {} /\ hist = <<>> /\ extracted = ""
    /\ InitRanker({""})
    /\ InitMessaging(FALSE) /\ InitSettings /\ InitPopup({ValidTab}) /\ InitScoring({""}) /\ InitKeys

NextMessages ==
    \/ InjectContentScript
    \/ MsgPing
    \/ MsgUnknown
    \/ MsgGetPageContent
    \/ MsgSearchInPage
    \/ MsgHighlightImportantContent
    \/ HighlightPass
    \/ MsgRemoveHighlights

SpecMessages == InitMessages /\ [][NextMessages]_vars

\* the background service, which shares nothing with the page but messages
InitBackground ==
    /\ InitDocument({ShortPage}) /\ InitRanker({""})
    /\ InitMessaging(TRUE) /\ InitSettings /\ InitPopup({ValidTab}) /\ InitScoring({""}) /\ InitKeys

NextBackground == BackgroundMessage

SpecBackground == InitBackground /\ [][NextBackground]_vars

(* The API key: EnvLoader and GeminiClient.                                *)

\* keys a user saves
UserKeys == {"key-one", "key-two"}

\* the string literal of gemini-client.js line 7, not spelled out here
HardCodedKey == "literal of gemini-client.js:7"

\* loadFromStorage once chrome.storage.sync.get has resolved: a stored key other than
\* the placeholder replaces the default
loadFromStorage(stored, env) ==
    IF stored # "" /\ stored # PlaceholderKey THEN stored ELSE env

\* The two storage calls are served by the browser, outside the page, and the page
\* goes on with each when its answer arrives.  Neither the code nor the storage API
\* orders the answers of a get and of a set, so each call is served and resumed in
\* steps of its own.

\* chrome.storage.sync.get of loadFromStorage is served: it reads the stored key, or
\* it fails
StorageGet ==
    /\ load.state = "pending"
    /\ \E ok \in BOOLEAN :
        load' = IF ok THEN [state |-> "read", result |-> storageKey]
                ELSE [state |-> "rejected", result |-> ""]
    /\ UNCHANGED <<storageKey, envKey, save, saved, clientKey, gen, fetches>>
    /\ UNCHANGED <<docVars, rankVars, injVars, msgVars, settings, scoreVars, popupVars>>

\* loadFromStorage after its await, lines 36-51
LoadFromStorage ==
    /\ load.state \in {"read", "rejected"}
    /\ load' = [state |-> "done", result |-> ""]
    /\ envKey' = IF load.state = "read" THEN loadFromStorage(load.result, envKey)
                 ELSE envKey
    /\ UNCHANGED <<storageKey, save, saved, clientKey, gen, fetches>>
    /\ UNCHANGED <<docVars, rankVars, injVars, msgVars, settings, scoreVars, popupVars>>

\* saveApiKey(apiKey) up to its await, one call at a time
SaveApiKey ==
    /\ save.state = "idle"
    /\ \E apiKey \in UserKeys : save' = [state |-> "pending", key |-> apiKey]
    /\ UNCHANGED <<storageKey, envKey, load, saved, clientKey, gen, fetches>>
    /\ UNCHANGED <<docVars, rankVars, injVars, msgVars, settings, scoreVars, popupVars>>

\* chrome.storage.sync.set of saveApiKey is served: the key is stored, or it fails
StorageSet ==
    /\ save.state = "pending"
    /\ \E ok \in BOOLEAN :
        /\ save' = [save EXCEPT !.state = IF ok THEN "written" ELSE "rejected"]
        /\ storageKey' = IF ok THEN save.key ELSE storageKey
    /\ UNCHANGED <<envKey, load, saved, clientKey, gen, fetches>>
    /\ UNCHANGED <<docVars, rankVars, injVars, msgVars, settings, scoreVars, popupVars>>

\* saveApiKey after its await: line 66, or the catch, which logs the error and leaves
\* env as it was
SaveApiKeyResumes ==
    /\ save.state \in {"written", "rejected"}
    /\ save' = SaveIdle
    /\ IF save.state = "written"
       THEN envKey' = save.key /\ saved' = save.key
       ELSE UNCHANGED <<envKey, saved>>
    /\ UNCHANGED <<storageKey, load, clientKey, gen, fetches>>
    /\ UNCHANGED <<docVars, rankVars, injVars, msgVars, settings, scoreVars, popupVars>>

\* faulty variant: the constructor reads the key of window.envLoader
constructorKeyFromEnv(env) == env

\* the GeminiClient constructor: this.apiKey is the literal of line 7
constructorKey(env) == HardCodedKey

\* new GeminiClient(), as the popup and the search page do when they open
ConstructClient ==
    /\ gen.state \in {"idle", "done"}
    /\ clientKey' = constructorKey(envKey)
    /\ gen' = GenIdle
    /\ fetches' = <<>>
    /\ UNCHANGED envVars
    /\ UNCHANGED <<docVars, rankVars, injVars, msgVars, settings, scoreVars, popupVars>>

Prompts == {"Write a summary of this page", "Hello"}

\* const maxRetries = 3; const retryDelay = 1000;
MaxRetries == 3
RetryDelay == 1000

\* generateText(prompt) up to its first fetch
StartGenerateText ==
    /\ clientKey # ""
    /\ gen.state \in {"idle", "done"}
    /\ \E prompt \in Prompts :
        gen' = [state |-> "fetching", attempt |-> 1, prompt |-> prompt,
                waits |-> <<>>, result |-> ""]
    /\ fetches' = <<>>
    /\ UNCHANGED <<envVars, clientKey>>
    /\ UNCHANGED <<docVars, rankVars, injVars, msgVars, settings, scoreVars, popupVars>>

\* how a fetch settles: a 2xx response with a candidate, a 2xx response without one,
\* a 503, another status, or a rejection
FetchOutcomes == {"ok", "malformed", "503", "400", "network"}

\* getFallbackResponse; the four Korean messages are named, not spelled
getFallbackResponse(prompt) ==
    IF includes(prompt, "yoyak") \/ includes(prompt, "summary") THEN "fallback: summary"
    ELSE IF includes(prompt, "beonyeok") \/ includes(prompt, "translate")
         THEN "fallback: translate"
    ELSE IF includes(prompt, "geomsaek") \/ includes(prompt, "search")
         THEN "fallback: search"
    ELSE "fallback: general"

\* faulty variant: every retry waits retryDelay, whatever the attempt
generateTextAttemptFlatDelay(g, outcome) ==
    IF outcome = "ok"
    THEN [g EXCEPT !.state = "done", !.result = "generated text"]
    ELSE IF g.attempt < MaxRetries
         THEN [g EXCEPT !.state = "waiting", !.waits = Append(@, RetryDelay)]
         ELSE [g EXCEPT !.state = "done", !.result = getFallbackResponse(g.prompt)]

\* faulty variant: the catch throws the error of the last attempt on
generateTextAttemptRethrows(g, outcome) ==
    IF outcome = "ok"
    THEN [g EXCEPT !.state = "done", !.result = "generated text"]
    ELSE IF g.attempt < MaxRetries
         THEN [g EXCEPT !.state = "waiting", !.waits = Append(@, RetryDelay * g.attempt)]
         ELSE [g EXCEPT !.state = "rejected", !.result = "API request failed"]

\* one turn of the for loop of generateText, from the fetch to the return, the continue
\* or the fallback
generateTextAttempt(g, outcome) ==
    IF outcome = "ok"
    THEN [g EXCEPT !.state = "done", !.result = "generated text"]
    ELSE IF g.attempt < MaxRetries
         THEN \* the 503 branch of line 45 and the catch of line 65 wait the same time
              [g EXCEPT !.state = "waiting", !.waits = Append(@, RetryDelay * g.attempt)]
         ELSE [g EXCEPT !.state = "done", !.result = getFallbackResponse(g.prompt)]

\* the fetch of line 32 is sent with this.apiKey in its URL and settles
FetchSettles ==
    /\ gen.state = "fetching"
    /\ \E outcome \in FetchOutcomes :
        /\ fetches' = Append(fetches, [key |-> clientKey, attempt |-> gen.attempt,
                                       saved |-> saved, outcome |-> outcome])
        /\ gen' = generateTextAttempt(gen, outcome)
    /\ UNCHANGED <<envVars, clientKey>>
    /\ UNCHANGED <<docVars, rankVars, injVars, msgVars, settings, scoreVars, popupVars>>

\* the timer of this.delay fires and the loop goes on
DelayElapses ==
    /\ gen.state = "waiting"
    /\ gen' = [gen EXCEPT !.state = "fetching", !.attempt = @ + 1]
    /\ UNCHANGED <<envVars, clientKey, fetches>>
    /\ UNCHANGED <<docVars, rankVars, injVars, msgVars, settings, scoreVars, popupVars>>

\* what chrome.storage.sync holds when the page opens: nothing, or the key of an
\* earlier session
StoredKeys == {"", "key-old"}

InitClient ==
    /\ InitDocument({ShortPage}) /\ InitRanker({""})
    /\ InitMessaging(TRUE) /\ InitSettings /\ InitPopup({ValidTab}) /\ InitScoring({""})
    /\ \E stored \in StoredKeys : InitStoredKeys(stored)

NextClient ==
    \/ StorageGet
    \/ LoadFromStorage
    \/ SaveApiKey
    \/ StorageSet
    \/ SaveApiKeyResumes
    \/ ConstructClient
    \/ StartGenerateText
    \/ FetchSettles
    \/ DelayElapses

SpecClient == InitClient /\ [][NextClient]_vars

\* every fetch settles, and the timer of a delay fires
SpecClientLive == SpecClient /\ WF_vars(FetchSettles) /\ WF_vars(DelayElapses)

(* scoreSentence called on its own.                                        *)

\* what a scored sentence begins with: no keyword, one, one twice, one in capitals,
\* several, all nine
SentenceStarts ==
    { "", "The cat sat", "the key", "The KEY to the key", "Key", "keyboard keys",
      "An Important point", "IMPORTANT and important and important",
      "the main summary", "Main key: the SUMMARY is important",
      "jungyo", "juyo jungyo juyo", "haeksim gyeollon yoyak",
      "jungyo haeksim juyo gyeollon yoyak key important main summary" }

\* lengths of the filler after it, around the length where each term stops changing
FillerLengths == {0, 50, 139, 200, 939, 1000, 1200}

ScoredSentences ==
    {start \o Repeat("x", n) : start \in SentenceStarts, n \in FillerLengths}

CallScoreSentence ==
    /\ scoreResult = -1
    /\ scoreResult' = scoreSentence(scoreArg)
    /\ UNCHANGED scoreArg
    /\ UNCHANGED <<docVars, rankVars, injVars, msgVars, settings, keyVars, popupVars>>

InitScore ==
    /\ InitDocument({ShortPage}) /\ InitRanker({""})
    /\ InitMessaging(TRUE) /\ InitSettings /\ InitPopup({ValidTab}) /\ InitScoring(ScoredSentences) /\ InitKeys

NextScore == CallScoreSentence

SpecScore == InitScore /\ [][NextScore]_vars

(* The popup: SmartWebAssistant of src/popup.js.                           *)

\* what getPageContent of the content script can answer with
PageContentA ==
    [title |-> "Sample page", url |-> "https://example.org/a", text |-> "Plain words.",
     images |-> <<"https://example.org/a.png">>, links |-> <<>>, headings |-> <<>>,
     metadata |-> <<>>]
PageContentB ==
    [title |-> "Sample page", url |-> "https://example.org/a",
     text |-> "A summary of the search.", images |-> <<>>, links |-> <<>>,
     headings |-> <<>>, metadata |-> <<>>]
PageContents == {PageContentA, PageContentB}

\* getFallbackContent
getFallbackContent(tab) ==
    [title |-> tab.title, url |-> tab.url,
     text |-> "Content not available. Please refresh the page and try again.",
     images |-> <<>>, links |-> <<>>, headings |-> <<>>, metadata |-> <<>>]

\* if (!this.currentTab || !this.currentTab.id || this.currentTab.id < 0)
invalidTab(tab) == tab.id <= 0

\* what the callback of chrome.tabs.sendMessage is called with: lastError set, a
\* response without content (or none), or a response with the content
MessageAnswers ==
    {[via |-> "message", lastError |-> TRUE, content |-> NoContent],
     [via |-> "message", lastError |-> FALSE, content |-> NoContent]}
        \cup {[via |-> "message", lastError |-> FALSE, content |-> c] : c \in PageContents}

\* faulty variant: the callback resolves with whatever the response holds
messageCallbackNoFallback(answer, tab) == answer.content

\* the callback of lines 200-210
messageCallback(answer, tab) ==
    IF answer.lastError THEN getFallbackContent(tab)
    ELSE IF answer.content # NoContent THEN answer.content
    ELSE getFallbackContent(tab)

\* const maxLength of summarize, translate and search
SummarizeMaxLength == 2000
TranslateMaxLength == 1000
SearchMaxLength == 1500

\* text.length > maxLength ? text.substring(0, maxLength) + '...' : text
truncatedText(t, maxLength) ==
    IF Len(t) > maxLength THEN substring(t, 0, maxLength) \o "..." ELSE t

\* the prompts of summarize, translate and search, the Korean words in Latin letters
summarizePrompt(t) ==
    "daeum tekseuteureul hangugeoro yoyakhaejuseyo (3-4 munjang):\n\n"
        \o truncatedText(t, SummarizeMaxLength) \o "\n\nyoyak:"
translatePrompt(t, targetLang) ==
    "daeum tekseuteureul " \o targetLang \o "ro beonyeokhaejuseyo:\n\n"
        \o truncatedText(t, TranslateMaxLength) \o "\n\nbeonyeok:"
searchPrompt(t, query) ==
    "daeum tekseuteu-eseo \"" \o query \o "\" gwallyeon jeongboreul chajajuseyo:\n\n"
        \o "tekseuteu:\n" \o truncatedText(t, SearchMaxLength)
        \o "\n\ngeomsaek-eo: " \o query \o "\n\ngwallyeon jeongbo:"

\* document.getElementById('searchInput').value.trim()
SearchInputs == {"", "key"}

\* the prompt an operation of the popup sends
promptOf(kind, t) ==
    CASE kind = "summarize" -> summarizePrompt(t)
      [] kind = "translate" -> translatePrompt(t, "Korean")
      [] kind = "search" -> searchPrompt(t, "key")

\* generateText from its first fetch to its return, the fetch of attempt i settling as
\* outcomes[i]
RECURSIVE generateTextFrom(_, _)
generateTextFrom(g, outcomes) ==
    LET r == generateTextAttempt(g, outcomes[g.attempt])
    IN IF r.state = "waiting"
       THEN generateTextFrom([r EXCEPT !.state = "fetching", !.attempt = @ + 1], outcomes)
       ELSE r

generateText(prompt, outcomes) ==
    generateTextFrom([state |-> "fetching", attempt |-> 1, prompt |-> prompt,
                      waits |-> <<>>, result |-> ""], outcomes)

\* what the three fetches of one generateText call may do: one kind of failure some
\* times, then an answer with text
FetchOutcomeLists ==
    {[k \in 1..MaxRetries |-> IF k <= n THEN failure ELSE "ok"] :
        n \in 0..MaxRetries, failure \in FetchOutcomes \ {"ok"}}

\* the texts getPageContent may resolve with
PageTexts == {c.text : c \in PageContents} \cup {getFallbackContent(ValidTab).text}

\* what summarize, translate and search of the client return: generateText of their
\* prompt, for every text and every list of fetch outcomes
generateTextOf ==
    [kind \in {"summarize", "translate", "search"}, t \in PageTexts,
     outcomes \in FetchOutcomeLists |-> generateText(promptOf(kind, t), outcomes)]

FreeSlots == {i \in 1..MaxFlights : flights[i].stage = "free"}

\* an operation takes the first free slot
Begin(kind, stage, answer, content) ==
    /\ FreeSlots # {}
    /\ LET i == CHOOSE k \in FreeSlots : \A h \in FreeSlots : k <= h
       IN flights' = [flights EXCEPT ![i] = [kind |-> kind, stage |-> stage,
                                             answer |-> answer, content |-> content]]

\* the catch or the end of the try, and the finally, of an operation
End(i, path, failed, value) ==
    /\ flights' = [flights EXCEPT ![i] = FreeSlot]
    /\ ended' = [kind |-> flights[i].kind, path |-> path, failed |-> failed,
                   value |-> value]
    /\ isProcessing' = FALSE

\* getPageContent of the popup up to its first await: with an invalid tab it resolves
\* with the fallback at once, else it calls injectContentScript
BeginWithPageContent(kind) ==
    IF invalidTab(currentTab)
    THEN Begin(kind, "generate", NoAnswer("invalid tab"), getFallbackContent(currentTab))
    ELSE Begin(kind, "inject", NoAnswer("none"), NoContent)

\* handleSummarize up to its first await
HandleSummarize ==
    /\ ~isProcessing
    /\ isProcessing' = TRUE
    /\ BeginWithPageContent("summarize")
    /\ UNCHANGED <<currentTab, ended>>
    /\ UNCHANGED <<docVars, rankVars, injVars, msgVars, settings, scoreVars, keyVars>>

\* handleTranslate up to its first await
HandleTranslate ==
    /\ ~isProcessing
    /\ isProcessing' = TRUE
    /\ BeginWithPageContent("translate")
    /\ UNCHANGED <<currentTab, ended>>
    /\ UNCHANGED <<docVars, rankVars, injVars, msgVars, settings, scoreVars, keyVars>>

\* performSearch up to its first await: it returns on an empty query and does not
\* look at isProcessing
PerformSearch ==
    /\ \E query \in SearchInputs :
        /\ query # ""
        /\ isProcessing' = TRUE
        /\ BeginWithPageContent("search")
    /\ UNCHANGED <<currentTab, ended>>
    /\ UNCHANGED <<docVars, rankVars, injVars, msgVars, settings, scoreVars, keyVars>>

\* handleHighlight up to its first await, in injectContentScript
HandleHighlight ==
    /\ ~isProcessing
    /\ isProcessing' = TRUE
    /\ Begin("highlight", "inject", NoAnswer("none"), NoContent)
    /\ UNCHANGED <<currentTab, ended>>
    /\ UNCHANGED <<docVars, rankVars, injVars, msgVars, settings, scoreVars, keyVars>>

\* injectContentScript settles: the ping was answered or executeScript succeeded, or
\* executeScript failed and the error is thrown on.  getPageContent catches it and
\* resolves with the fallback; handleHighlight goes to its catch.  Without a tab id
\* there is nothing to inject into.
InjectSettles(i) ==
    /\ flights[i].stage = "inject"
    /\ \E injected \in (IF invalidTab(currentTab) THEN {FALSE} ELSE BOOLEAN) :
        IF injected
        THEN /\ flights' = [flights EXCEPT ![i].stage = "timer"]
             /\ UNCHANGED <<isProcessing, ended>>
        ELSE IF flights[i].kind = "highlight"
        THEN End(i, "error", FALSE, "Content script injection failed")
        ELSE /\ flights' = [flights EXCEPT ![i].stage = "generate",
                                           ![i].answer = NoAnswer("injection failed"),
                                           ![i].content = getFallbackContent(currentTab)]
             /\ UNCHANGED <<isProcessing, ended>>
    /\ UNCHANGED currentTab
    /\ UNCHANGED <<docVars, rankVars, injVars, msgVars, settings, scoreVars, keyVars>>

\* the setTimeout of 1000 ms fires and chrome.tabs.sendMessage is called
MessageTimerFires(i) ==
    /\ flights[i].stage = "timer"
    /\ flights' = [flights EXCEPT ![i].stage = "message"]
    /\ UNCHANGED <<currentTab, isProcessing, ended>>
    /\ UNCHANGED <<docVars, rankVars, injVars, msgVars, settings, scoreVars, keyVars>>

\* the message is answered, or the port is closed without an answer: the callback of
\* getPageContent resolves, the promise of sendMessageToContentScript settles
MessageAnswered(i) ==
    /\ flights[i].stage = "message"
    /\ \E answer \in MessageAnswers :
        IF flights[i].kind = "highlight"
        THEN IF answer.lastError
             THEN End(i, "error", FALSE, "Could not establish connection")
             ELSE End(i, "success", FALSE, "Highlights applied")
        ELSE /\ flights' = [flights EXCEPT ![i].stage = "generate",
                                           ![i].answer = answer,
                                           ![i].content = messageCallback(answer, currentTab)]
             /\ UNCHANGED <<isProcessing, ended>>
    /\ UNCHANGED currentTab
    /\ UNCHANGED <<docVars, rankVars, injVars, msgVars, settings, scoreVars, keyVars>>

\* gemini.summarize, translate or search returns or throws, and the operation runs to
\* its end: the display and the status of the try, or handleError, then the finally
GenerateReturns(i) ==
    /\ flights[i].stage = "generate"
    /\ \E outcomes \in FetchOutcomeLists :
       \E r \in {generateTextOf[flights[i].kind, flights[i].content.text, outcomes]} :
          End(i, IF r.state = "done" THEN "success" ELSE "error",
              \A k \in 1..MaxRetries : outcomes[k] # "ok", r.result)
    /\ UNCHANGED currentTab
    /\ UNCHANGED <<docVars, rankVars, injVars, msgVars, settings, scoreVars, keyVars>>

\* an operation goes on after one of its awaits
Resume(i) ==
    \/ InjectSettles(i)
    \/ MessageTimerFires(i)
    \/ MessageAnswered(i)
    \/ GenerateReturns(i)

InitUI ==
    /\ InitDocument({ShortPage}) /\ InitRanker({""})
    /\ InitMessaging(TRUE) /\ InitSettings /\ InitPopup({ValidTab, NoIdTab})
    /\ InitScoring({""}) /\ InitKeys

NextUI ==
    \/ HandleSummarize
    \/ HandleHighlight
    \/ HandleTranslate
    \/ PerformSearch
    \/ \E i \in 1..MaxFlights : Resume(i)

SpecUI == InitUI /\ [][NextUI]_vars

\* the user clicks Summarize and submits searches only: the one caller of
\* getPageContent that looks at isProcessing first and the one that does not
NextPageContent ==
    \/ HandleSummarize
    \/ PerformSearch
    \/ \E i \in 1..MaxFlights : Resume(i)

\* injectContentScript, the timer, the message and the fetches of every operation
\* settle
SpecUILive ==
    InitUI /\ [][NextPageContent]_vars /\ \A i \in 1..MaxFlights : WF_vars(Resume(i))

(* The methods of window.contentAnalyzer called directly.                  *)

CallHighlightSentences ==
    /\ pc = "idle"
    /\ Len(markerPaths(body)) < MaxMarkers
    /\ \E sentences \in SentenceLists :
        \E r \in {highlightSentences(body, sentences)} :
           /\ body' = r.body
           /\ hist' = Push(hist, Call("highlightSentences", sentences, r.threw))
    /\ UNCHANGED <<head, pc, passes, timers, extracted, rankVars, injVars, msgVars,
                   settings, scoreVars, popupVars, keyVars>>

NextAPI ==
    \/ CallHighlightSentences
    \/ MsgRemoveHighlights
    \/ MsgHighlightImportantContent
    \/ HighlightPass

InitAPI ==
    /\ InitDocument({ArticlePage, TwoParagraphPage}) /\ InitRanker({""})
    /\ InitMessaging(TRUE) /\ InitSettings /\ InitPopup({ValidTab}) /\ InitScoring({""}) /\ InitKeys

SpecAPI == InitAPI /\ [][NextAPI]_vars

(* findImportantSentences as a function of its argument.                   *)

InitRank ==
    /\ InitDocument({ShortPage}) /\ InitRanker({"", ScenarioText})
    /\ InitMessaging(TRUE) /\ InitSettings /\ InitPopup({ValidTab}) /\ InitScoring({""}) /\ InitKeys

\* the number of fragments of a text that ends in a terminator
PieceCount(t) == Len(split(t)) - 1

AppendPiece ==
    /\ ~rankDone
    /\ text # ScenarioText
    /\ \E piece \in Pieces :
        /\ PieceCount(text \o piece) <= MaxPieces
        /\ text' = text \o piece
    /\ UNCHANGED <<docVars, ranked, rankDone, injVars, msgVars, settings, scoreVars, popupVars,
                   keyVars>>

CallFindImportantSentences ==
    /\ ~rankDone
    /\ ranked' = findImportantSentences(text)
    /\ rankDone' = TRUE
    /\ UNCHANGED <<docVars, text, injVars, msgVars, settings, scoreVars, popupVars, keyVars>>

NextRank == AppendPiece \/ CallFindImportantSentences

SpecRank == InitRank /\ [][NextRank]_vars

(* extractTextContent on pages around the cap.                             *)

InitExtract ==
    /\ InitDocument(LongBodies) /\ InitRanker({""})
    /\ InitMessaging(TRUE) /\ InitSettings /\ InitPopup({ValidTab}) /\ InitScoring({""}) /\ InitKeys

NextExtract == MsgGetPageContent

SpecExtract == InitExtract /\ [][NextExtract]_vars

----------------------------------------------------------------------------
(* Properties.                                                             *)

LastCall == hist[Len(hist)]

LastOp == IF hist = <<>> THEN "none" ELSE LastCall.op

\* the last two calls were op1 and then op2, nothing between them
TwoCalls(op1, op2) == Len(hist) = 2 /\ hist[1].op = op1 /\ hist[2].op = op2

Range(seq) == {seq[i] : i \in 1..Len(seq)}

IsPrefix(p, q) == Len(p) <= Len(q) /\ SubSeq(q, 1, Len(p)) = p

\* the text of the body that is not the summary popup's
TextOutsidePopup(b) ==
    Concat([i \in 1..Len(b.kids) |->
               IF IsPopup(b.kids[i]) THEN "" ELSE textContent(b.kids[i])])

\* C1: after removeHighlights no marker element is left and nothing was thrown, and
\* a removeHighlights that follows another at once leaves head and body as they were.
C1_RemoveTwiceIsNoOp ==
    /\ LastOp = "removeHighlights" =>
          ~LastCall.threw /\ markerPaths(body) = <<>>
    /\ TwoCalls("removeHighlights", "removeHighlights") => Snapshot = hist[2].pre

\* C1 witness: removeHighlights twice, the first on a document with two markers and
\* the popup
C1_Witness ==
    /\ TwoCalls("removeHighlights", "removeHighlights")
    /\ Len(markerPaths(hist[1].pre.body)) >= 2
    /\ idPaths(hist[1].pre.body, PopupId) # <<>>

\* C2 as claimed: highlightSentences and then removeHighlights leave the text content
\* of the whole body as it was before the highlighting.
C2_BodyTextRestored ==
    TwoCalls("highlightSentences", "removeHighlights") =>
        textContent(body) = textContent(hist[1].pre.body)

\* C2 amended: highlightSentences and then removeHighlights leave the text content of
\* the body outside the summary popup as it was before the highlighting, and the
\* popup, when there was one, is gone.
C2_TextOutsidePopupRestored ==
    TwoCalls("highlightSentences", "removeHighlights") =>
        /\ TextOutsidePopup(body) = TextOutsidePopup(hist[1].pre.body)
        /\ textContent(body) = TextOutsidePopup(body)

\* C2 witness: the highlighting wrapped text that had more text after it, and the
\* removal merged the parts again
C2_Witness ==
    /\ TwoCalls("highlightSentences", "removeHighlights")
    /\ Len(markerPaths(hist[2].pre.body)) > Len(markerPaths(hist[1].pre.body))
    /\ hist[1].pre.body = ArticlePage
    /\ body = ArticlePage

\* C3: no marker element lies inside another, and when highlightImportantContent
\* resumes to insert its markers the document holds none.
C3_NoNestedMarkers ==
    /\ \A i, j \in 1..Len(markerPaths(body)) :
          i # j => ~IsPrefix(markerPaths(body)[i], markerPaths(body)[j])
    /\ pc = "pass" => markerPaths(body) = <<>>

\* C3 witness: a second highlight request found the marker of the first, and its
\* pass has inserted a marker again
C3_Witness ==
    /\ TwoCalls("highlightImportantContent", "highlightPass")
    /\ passes = 2
    /\ markerPaths(hist[1].pre.body) # <<>>
    /\ markerPaths(body) # <<>>

\* C4 as claimed: highlightSentences called twice in a row with the same sentences
\* leaves the document as the first call left it.
C4_HighlightTwiceSameAsOnce ==
    (TwoCalls("highlightSentences", "highlightSentences") /\ hist[1].arg = hist[2].arg)
        => body = hist[2].pre.body

\* C5 as claimed: neither highlightSentences nor the pass of highlightImportantContent
\* that calls it throws.
C5_HighlightNeverThrows ==
    \A i \in 1..Len(hist) :
        hist[i].op \in {"highlightSentences", "highlightPass"} => ~hist[i].threw

\* the fragments of a text whose trimmed length is above n, in text order
FragmentsLongerThan(t, n) == SelectSeq(split(t), LAMBDA f : Len(trim(f)) > n)

\* C6: findImportantSentences returns min(5, q) sentences, q the number of fragments
\* that pass the length filter; none when q is 0.
C6_ReturnsMinFiveQ ==
    rankDone =>
        LET q == Len(FragmentsLongerThan(text, 20))
        IN /\ Len(ranked) = (IF q < 5 THEN q ELSE 5)
           /\ q = 0 => ranked = <<>>

\* C6 witness: more than five fragments qualified and five came back
C6_Witness == rankDone /\ Len(FragmentsLongerThan(text, 20)) > 5 /\ Len(ranked) = 5

\* the scores of the candidates c
ScoresOf(c) == [i \in 1..Len(c) |-> scoreSentence(c[i])]

\* the place of candidate i in the order by falling score sc, earlier first among
\* equals
PlaceByScore(sc, i) ==
    1 + Cardinality({j \in 1..Len(sc) : sc[j] > sc[i] \/ (sc[j] = sc[i] /\ j < i)})

\* C7: the result is the candidates by falling score, equal scores in text order, cut
\* after the fifth, each trimmed.
C7_StableDescendingTopFive ==
    rankDone =>
        LET c == FragmentsLongerThan(text, 20)
            sc == ScoresOf(c)
        IN /\ Len(ranked) = (IF Len(c) < 5 THEN Len(c) ELSE 5)
           /\ \A i \in 1..Len(c) :
                 PlaceByScore(sc, i) <= 5 => ranked[PlaceByScore(sc, i)] = trim(c[i])

\* C7 witness: more than five candidates; among the returned, two different sentences
\* of equal score, and one that the sort moved ahead of an earlier one
C7_Witness ==
    /\ rankDone
    /\ LET c == FragmentsLongerThan(text, 20)
           sc == ScoresOf(c)
       IN /\ Len(c) > 5
          /\ \E i, j \in 1..Len(c) :
                /\ i < j
                /\ sc[i] = sc[j]
                /\ trim(c[i]) # trim(c[j])
                /\ PlaceByScore(sc, j) <= 5
          /\ \E i, j \in 1..Len(c) :
                i < j /\ sc[i] < sc[j] /\ PlaceByScore(sc, j) <= 5

\* C8 as claimed: a fragment is dropped exactly when its trimmed length is under 20,
\* so what is returned has trimmed length 20 or more, and when at most five fragments
\* have that length all of them are returned.
C8_KeepsTwentyOrMore ==
    rankDone =>
        LET keep == FragmentsLongerThan(text, 19)
        IN /\ Range(ranked) \subseteq {trim(keep[i]) : i \in 1..Len(keep)}
           /\ Len(keep) <= 5 => {trim(keep[i]) : i \in 1..Len(keep)} \subseteq Range(ranked)

\* C8 amended: a fragment between runs of terminators is dropped exactly when its
\* trimmed length is 20 or less: what is returned has trimmed length 21 or more and
\* no terminator in it, and when at most five fragments have that length all of them
\* are returned.
C8_KeepsTwentyOneOrMore ==
    rankDone =>
        LET keep == FragmentsLongerThan(text, 20)
        IN /\ Range(ranked) \subseteq {trim(keep[i]) : i \in 1..Len(keep)}
           /\ Len(keep) <= 5 => {trim(keep[i]) : i \in 1..Len(keep)} \subseteq Range(ranked)
           /\ \A i \in 1..Len(ranked) :
                 \A k \in 1..Len(ranked[i]) : Ch(ranked[i], k) \notin {".", "!", "?"}

\* C8 witness: the text had a fragment of trimmed length 20 behind a run of two
\* terminators and fragments of length 21, and the latter were returned
C8_Witness ==
    /\ rankDone
    /\ \E i \in 1..Len(split(text)) : Len(trim(split(text)[i])) = 20
    /\ includes(text, "?!")
    /\ ranked # <<>>
    /\ \A i \in 1..Len(ranked) : Len(ranked[i]) = 21

\* C9: on the scenario text the long sentence comes first, "A short one" is not
\* returned, and "This is important" scores 0.17 + 1 + 0.983 with its one keyword hit
\* being "important".
C9_Scenario ==
    (rankDone /\ text = ScenarioText) =>
        /\ ranked # <<>>
        /\ ranked[1] = LongSentence
        /\ "A short one" \notin Range(ranked)
        /\ keywordHits("This is important") = 1
        /\ includes("This is important", "important")
        /\ scoreSentence("This is important") = 170 + 1000 + 983

\* C9 witness: findImportantSentences has returned for the scenario text
C9_Witness == rankDone /\ text = ScenarioText /\ Len(ranked) = 1

\* the cleaned text of the page a getPageContent call started on, before the cap
CleanedTextOf(snapshot) ==
    LET b == [snapshot.body EXCEPT !.kids = removeMatching(@)]
    IN cleanText(innerText(nodeAt(b, mainContent(b))))

\* C10: the extracted text has at most 15,000 characters; a cleaned text longer than
\* that is cut to its first 15,000 characters and nothing is appended, a shorter one
\* is returned whole.
C10_CappedAtFifteenThousand ==
    LastOp = "getPageContent" =>
        LET cleaned == CleanedTextOf(LastCall.pre)
        IN /\ Len(extracted) <= 15000
           /\ Len(cleaned) > 15000 =>
                 Len(extracted) = 15000 /\ extracted = SubSeq(cleaned, 1, 15000)
           /\ Len(cleaned) <= 15000 => extracted = cleaned

\* C10 witness: a page whose cleaned text is longer than the cap was extracted
C10_Witness ==
    /\ LastOp = "getPageContent"
    /\ Len(CleanedTextOf(LastCall.pre)) > 15000
    /\ Len(extracted) = 15000

\* an element the claim names: script, style, nav, header, footer, aside, .ad,
\* .advertisement, .sidebar
IsNonContent(n) ==
    \/ n.tag \in {"SCRIPT", "STYLE", "NAV", "HEADER", "FOOTER", "ASIDE"}
    \/ n.cls \in {"ad", "advertisement", "sidebar"}

\* a word of each text that such an element of the model's pages holds; none of them
\* occurs in the text of any other element
NonContentWords ==
    {"Home", "var x", "Ads here", "menu", "Buy", "Footer", "smart-assistant-highlight"}

HasNonContentWord(t) == \E w \in NonContentWords : includes(t, w)

ExtractingOps == {"getPageContent", "searchInPage", "highlightImportantContent", "highlightPass"}

\* C11: an extraction takes every script, style, nav, header, footer, aside, .ad,
\* .advertisement and .sidebar element out of the document before it reads, so the
\* text it returns, the sentences ranked from it and the marker elements hold no text
\* of such an element.
C11_NoNonContentText ==
    /\ \A i \in 1..Len(AllElements(head, body)) :
          IsNonContent(AllElements(head, body)[i])
              => HasNonContentWord(textContent(AllElements(head, body)[i]))
    /\ LastOp \in ExtractingOps =>
          /\ \A i \in 1..Len(AllElements(head, body)) :
                ~IsNonContent(AllElements(head, body)[i])
          /\ ~HasNonContentWord(extracted)
          /\ \A s \in Range(findImportantSentences(extracted)) : ~HasNonContentWord(s)
          /\ \A i \in 1..Len(markerPaths(body)) :
                ~HasNonContentWord(textContent(nodeAt(body, markerPaths(body)[i])))

\* C11 witness: a pass on the page whose header and advertisement hold sentences that
\* would rank, and a marker set by it
C11_Witness ==
    /\ TwoCalls("highlightImportantContent", "highlightPass")
    /\ hist[1].pre.body = NoisyPage
    /\ markerPaths(body) # <<>>
    /\ extracted = S1 \o "."


\* a document with no element but script and style elements under its head and body
OnlyScriptAndStyle(doc) ==
    /\ HasBody(doc.body)
    /\ \A i \in 1..Len(AllElements(doc.head, doc.body)) :
          AllElements(doc.head, doc.body)[i].tag \in {"HEAD", "BODY", "SCRIPT", "STYLE"}

\* C12: on a document with a body getPageContent throws nothing and the listener
\* answers with the content; on a document of script and style elements only the
\* content has the empty text and no images, links or headings.
C12_ExtractionNeverFails ==
    (request = ToContent("getPageContent") /\ HasBody(LastCall.pre.body)) =>
        /\ LastOp = "getPageContent"
        /\ ~LastCall.threw
        /\ Len(sent) = 1
        /\ DOMAIN sent[1] = {"content"}
        /\ DOMAIN sent[1].content =
              {"title", "url", "text", "images", "links", "headings", "metadata"}
        /\ OnlyScriptAndStyle(LastCall.pre) =>
              /\ sent[1].content.text = ""
              /\ sent[1].content.images = <<>>
              /\ sent[1].content.links = <<>>
              /\ sent[1].content.headings = <<>>

\* C12 witness: getPageContent on the document whose body holds a script and a style
\* element, answered with the empty text
C12_Witness ==
    /\ LastOp = "getPageContent"
    /\ request.action = "getPageContent"
    /\ OnlyScriptAndStyle(LastCall.pre)
    /\ LastCall.pre.body = ScriptPage
    /\ sent = <<[content |-> [title |-> DocumentTitle, url |-> LocationHref, text |-> "",
                              images |-> <<>>, links |-> <<>>, headings |-> <<>>,
                              metadata |-> <<>>]]>>

\* a state of the same specification in which the lists are not empty: the page with
\* images, links and headings outside and inside the removed elements
C12_MediaExtracted ==
    /\ LastOp = "getPageContent"
    /\ request.action = "getPageContent"
    /\ Len(sent) = 1
    /\ Len(sent[1].content.images) = 1
    /\ Len(sent[1].content.links) = 1
    /\ sent[1].content.headings = <<[level |-> 2, text |-> "Key facts", id |-> "intro"]>>
    /\ sent[1].content.metadata["description"] = "second"


\* the summary overlays in the document
Overlays == SelectSeq(AllElements(head, body), LAMBDA n : n.id = PopupId)

\* C13: the document never holds more than one element with id
\* smart-assistant-summary, whatever highlight requests, removals, dismissals and
\* timer firings have happened.
C13_AtMostOneOverlay == Len(Overlays) <= 1

\* C13 witness: the overlay of the second pass is the only one, while the timer of
\* the first is still pending
C13_Witness ==
    /\ LastOp = "highlightPass"
    /\ passes = 2
    /\ timers = {1, 2}
    /\ Len(Overlays) = 1
    /\ Overlays[1].uid = 2


\* the action names each listener knows
ContentActions ==
    {"ping", "getPageContent", "highlightImportantContent", "removeHighlights", "searchInPage"}

BackgroundActions ==
    {"getPageInfo", "analyzeContent", "generateSummary", "translateText", "searchContent",
     "getSettings", "updateSettings"}

UnknownActionFailure == [success |-> FALSE, error |-> "Unknown action"]

\* C14 as claimed: a message whose action is none of the listener's action names is
\* answered, by the content script and by the background service alike, with
\* {success: false, error: 'Unknown action'}, and the answer reaches the sender.
C14_UnknownActionAnswered ==
    /\ (request.to = "content" /\ request.action \notin ContentActions) =>
          sent = <<UnknownActionFailure>> /\ delivered
    /\ (request.to = "background" /\ request.action \notin BackgroundActions) =>
          sent = <<UnknownActionFailure>> /\ delivered

\* the part of C14 about the content script: the listener answers an unknown action
\* with the failure and is still registered afterwards
C14_ContentListenerAnswers ==
    (request.to = "content" /\ request.action \notin ContentActions) =>
        sent = <<UnknownActionFailure>> /\ delivered /\ listeners = 1

\* the background service answering an action that is not one of its seven with
\* success
C14_BackgroundAnswersSuccess ==
    /\ request = ToBackground("toString")
    /\ sent = <<[success |-> TRUE, data |-> "[object Undefined]"]>>


HandlerActions == {"getPageContent", "highlightImportantContent", "removeHighlights", "searchInPage"}

\* C15 as claimed: for a getPageContent, highlightImportantContent, removeHighlights
\* or searchInPage request the content-script listener calls sendResponse exactly
\* once, also when the work of the handler fails.
C15_ExactlyOneResponse ==
    (request.to = "content" /\ request.action \in HandlerActions) => Len(sent) = 1

\* a searchInPage request that is never answered: the one without a query
C15_SearchUnanswered ==
    /\ request = ToContent("searchInPage")
    /\ HasBody(body)
    /\ LastCall.threw
    /\ sent = <<>>

\* highlightImportantContent and removeHighlights are answered once on every
\* document, and getPageContent and searchInPage when their promise resolves
C15_OneResponseWhenResolved ==
    (request.to = "content" /\ request.action \in HandlerActions) =>
        /\ Len(sent) <= 1
        /\ request.action \in {"highlightImportantContent", "removeHighlights"}
              => Len(sent) = 1
        /\ (request.action \in {"getPageContent", "searchInPage"} /\ ~LastCall.threw)
              => Len(sent) = 1


\* C16 as claimed: once saveApiKey(k) has completed, every fetch of generateText
\* carries k as its key.
C16_RequestsCarrySavedKey ==
    \A i \in 1..Len(fetches) :
        fetches[i].saved # "" => fetches[i].key = fetches[i].saved

\* a client constructed after the key was saved and loaded, sending another key
C16_SavedKeyNotSent ==
    /\ saved = "key-one"
    /\ envKey = "key-one"
    /\ storageKey = "key-one"
    /\ Len(fetches) = 1
    /\ fetches[1].saved = "key-one"
    /\ fetches[1].key = HardCodedKey


\* the keywords that occur in s at some position, letters compared without case
KeywordsIn(s) ==
    {i \in 1..Len(keywords) :
        \E p \in 1..Len(s) :
            /\ p + Len(keywords[i]) - 1 <= Len(s)
            /\ \A j \in 1..Len(keywords[i]) :
                LowerCh(Ch(s, p + j - 1)) = LowerCh(Ch(keywords[i], j))}

AfterRemovalStep(snapshot) ==
    LET r == getPageContent(snapshot.head, removeHighlights(snapshot.body).body)
    IN [head |-> r.head, body |-> r.body]

\* C18: while a highlight pass is suspended between its removal step and its
\* application step nothing else has run since the request, and the application step
\* starts on exactly the document the removal step left: no other handler, timer or
\* click comes between the two.
C18_PassRunsToCompletion ==
    /\ pc = "pass" =>
          /\ LastOp = "highlightImportantContent"
          /\ ~LastCall.threw
          /\ Snapshot = AfterRemovalStep(LastCall.pre)
    /\ LastOp = "highlightPass" =>
          /\ Len(hist) = 2
          /\ hist[1].op = "highlightImportantContent"
          /\ hist[2].pre = AfterRemovalStep(hist[1].pre)

\* C18 witness: a second highlight request, made on a document that holds the markers
\* and the popup of the first, has removed them and applied its own
C18_Witness ==
    /\ LastOp = "highlightPass"
    /\ passes = 2
    /\ Len(hist) = 2
    /\ markerPaths(hist[1].pre.body) # <<>>
    /\ idPaths(hist[1].pre.body, PopupId) # <<>>
    /\ markerPaths(hist[2].pre.body) = <<>>
    /\ markerPaths(body) # <<>>


\* C19: however often content.js is injected into the page, at most one listener is
\* registered on chrome.runtime.onMessage; it is there from the first injection on,
\* and a message gets at most one response.
C19_ListenerRegisteredOnce ==
    /\ listeners <= 1
    /\ injections > 0 => listeners = 1 /\ loaded /\ analyzer
    /\ request # NoRequest => listeners = 1 /\ Len(sent) <= 1

\* C19 witness: content.js has run three times in the page and a ping is answered
\* once by the one listener
C19_Witness ==
    /\ injections = 3
    /\ listeners = 1
    /\ request = ToContent("ping")
    /\ sent = <<[status |-> "alive"]>>


\* the overlay that the pass numbered uid showed is in the document
OverlayShown(uid) == uidPaths(body, uid) # <<>>

\* C20: an overlay in the document has its own timer still pending, so that none is
\* left once its timer has fired, and every overlay that is shown is later gone, by
\* its timer, by the dismiss button or by a later removal.
C20_OverlayEventuallyRemoved ==
    /\ [](\A uid \in 1..MaxPasses : OverlayShown(uid) => uid \in timers)
    /\ \A uid \in 1..MaxPasses : OverlayShown(uid) ~> ~OverlayShown(uid)

\* C20 witness: the timer of an overlay fired while the overlay was in the document
\* and took it away
C20_Witness ==
    /\ LastOp = "timeout"
    /\ uidPaths(LastCall.pre.body, LastCall.arg[1]) # <<>>
    /\ ~OverlayShown(LastCall.arg[1])
    /\ Len(Overlays) = 0


\* C21 as claimed: a fetch after the first follows a 503 response only; another status
\* and a response without the expected fields end the call.
C21_RetryOnlyAfter503 ==
    \A i \in 2..Len(fetches) : fetches[i - 1].outcome = "503"

\* a second fetch after a 400 response, and a third after a malformed one
C21_RetryAfterTerminal ==
    /\ Len(fetches) = 3
    /\ fetches[1].outcome = "400"
    /\ fetches[2].outcome = "malformed"

\* the waits one call has made up to its attempt number a
WaitsBefore(a) == [k \in 1..(a - 1) |-> 1000 * k]

\* C22: a call makes at most 3 fetches, numbered 1, 2, 3; before attempt k + 1 it has
\* waited exactly once after each earlier attempt, 1000 * k ms after attempt k,
\* whatever the failure was; after the third attempt it does not wait but returns; and
\* a call that has started returns.
C22_ThreeAttemptsAndBackoff ==
    /\ [](/\ Len(fetches) <= 3
          /\ \A i \in 1..Len(fetches) : fetches[i].attempt = i
          /\ gen.state = "fetching" =>
                /\ Len(fetches) = gen.attempt - 1
                /\ gen.waits = WaitsBefore(gen.attempt)
          /\ gen.state = "waiting" =>
                /\ gen.attempt < 3
                /\ Len(fetches) = gen.attempt
                /\ gen.waits = WaitsBefore(gen.attempt + 1)
          /\ gen.state = "done" =>
                /\ Len(fetches) = gen.attempt
                /\ gen.waits = WaitsBefore(gen.attempt))
    /\ (gen.state = "fetching") ~> (gen.state = "done")

\* C22 witness: a call that failed three times in three ways has waited 1000 ms and
\* 2000 ms and returned the fallback
C22_Witness ==
    /\ gen.state = "done"
    /\ Len(fetches) = 3
    /\ fetches[1].outcome = "network"
    /\ fetches[2].outcome = "503"
    /\ fetches[3].outcome = "400"
    /\ gen.waits = <<1000, 2000>>
    /\ gen.result = "fallback: general"


\* the operations of the popup that call getPageContent
ContentKinds == {"summarize", "translate", "search"}

\* the fallback PageContent as the claim describes it
IsFallbackContent(c) ==
    c = [title |-> currentTab.title, url |-> currentTab.url,
         text |-> "Content not available. Please refresh the page and try again.",
         images |-> <<>>, links |-> <<>>, headings |-> <<>>, metadata |-> <<>>]

\* getPageContent of the operation in slot i has not settled yet
AwaitsPageContent(i) ==
    flights[i].kind \in ContentKinds /\ flights[i].stage \in {"inject", "timer", "message"}

\* getPageContent of the operation in slot i has resolved, and with a PageContent
PageContentResolved(i) ==
    flights[i].kind \in ContentKinds /\ flights[i].stage = "generate"

\* C23: getPageContent of the popup always resolves and never rejects: with an
\* invalid tab, a failed injection, a runtime error or an answer without content it
\* resolves with the fallback PageContent, else with exactly the content the content
\* script returned.
C23_PageContentAlwaysResolves ==
    /\ [](\A i \in 1..MaxFlights :
            PageContentResolved(i) =>
                IF \/ flights[i].answer.via \in {"invalid tab", "injection failed"}
                   \/ flights[i].answer.lastError
                   \/ flights[i].answer.content = NoContent
                THEN IsFallbackContent(flights[i].content)
                ELSE /\ flights[i].answer.via = "message"
                     /\ flights[i].content = flights[i].answer.content
                     /\ flights[i].content \in PageContents)
    /\ \A i \in 1..MaxFlights : AwaitsPageContent(i) ~> PageContentResolved(i)

\* C23 witness: a summarize whose message met a runtime error goes on with the
\* fallback, while a search goes on with the content the content script returned
C23_Witness ==
    \E i, k \in 1..MaxFlights :
        /\ PageContentResolved(i) /\ flights[i].kind = "summarize"
        /\ flights[i].answer.via = "message" /\ flights[i].answer.lastError
        /\ IsFallbackContent(flights[i].content)
        /\ PageContentResolved(k) /\ flights[k].kind = "search"
        /\ flights[k].content = PageContentB

\* the fixed messages of getFallbackResponse
FallbackMessages ==
    {"fallback: summary", "fallback: translate", "fallback: search", "fallback: general"}

InFlight == {i \in 1..MaxFlights : flights[i].stage # "free"}

\* C25 as claimed: under any interleaving of clicks and completions at most one of
\* summarize, highlight, translate and performSearch is in flight at a time, and
\* isProcessing is true whenever one of them is in flight.
C25_OneOperationInFlight ==
    /\ Cardinality(InFlight) <= 1
    /\ InFlight # {} => isProcessing

\* a search was submitted while a summarize was waiting for its page content
C25_SearchBesideSummarize ==
    \E i, k \in InFlight :
        /\ flights[i].kind = "summarize"
        /\ flights[k].kind = "search"

\* the finally of a search has cleared isProcessing under a summarize in flight
C25_InFlightNotProcessing ==
    /\ ended.kind = "search"
    /\ \E i \in InFlight : flights[i].kind = "summarize"
    /\ ~isProcessing

\* the highlight pass of the last request has completed: nothing of it is left to run,
\* its markers are in the document and its overlay is shown
PassCompleted ==
    /\ pc = "idle"
    /\ LastOp = "highlightPass"
    /\ ~LastCall.threw
    /\ OverlayShown(passes)

\* C26 as claimed: when a highlightImportantContent request is answered with
\* {success: true} its pass has completed, and a pass that fails is answered with
\* {success: false, error}.
C26_SuccessMeansPassCompleted ==
    /\ (LastOp = "highlightImportantContent" /\ sent = <<[success |-> TRUE]>>) =>
          PassCompleted
    /\ (LastOp = "highlightPass" /\ LastCall.threw) =>
          (Len(sent) = 1 /\ ~sent[1].success)

\* the request is answered with success while its pass has not begun to mark
C26_AnsweredBeforePass ==
    /\ LastOp = "highlightImportantContent"
    /\ sent = <<[success |-> TRUE]>>
    /\ pc = "pass"
    /\ markerPaths(body) = <<>>
    /\ Len(Overlays) = 0

\* the pass has thrown and the answer of its request was success
C26_FailedPassAnsweredSuccess ==
    /\ LastOp = "highlightPass"
    /\ LastCall.threw
    /\ request = ToContent("highlightImportantContent")
    /\ sent = <<[success |-> TRUE]>>
    /\ Len(Overlays) = 0

\* C27 as claimed: none of the actions the background service sends to a tab on a
\* context-menu click is answered by the content script with 'Unknown action'.
C27_ContextMenuActionsHandled ==
    (request.to = "content" /\ request.action \in ContextMenuActions) =>
        sent # <<UnknownActionFailure>>

\* the summarizePage of triggerSummarize answered with 'Unknown action'
C27_SummarizePageUnknown ==
    /\ request = ToContent("summarizePage")
    /\ sent = <<UnknownActionFailure>>
    /\ listeners = 1

\* the style element injectStyles added is in the document
StylesPresent ==
    \E i \in 1..Len(AllElements(head, body)) : AllElements(head, body)[i].id = StylesId

\* C28 as claimed: the style element the content script injected is in the document
\* after any sequence of requests, in particular whenever a marker is.
C28_StylesStay == StylesPresent

\* markers in the document and the style element that styles them gone
C28_MarkersWithoutStyles ==
    /\ markerPaths(body) # <<>>
    /\ ~StylesPresent
    /\ LastOp = "highlightPass"

\* C29: an overlay leaves the document only by its own timer, by the dismiss button
\* or by the removeHighlights of a removal or of a new highlight request: the timer of
\* an earlier overlay leaves a later one in place.
C29_TimerRemovesOnlyItsOverlay ==
    [][\A uid \in 1..MaxPasses :
          (OverlayShown(uid) /\ ~OverlayShown(uid)') =>
              \/ LastOp' = "timeout" /\ LastCall'.arg = <<uid>>
              \/ LastOp' \in {"dismiss", "removeHighlights", "highlightImportantContent"}]_vars

\* C29 witness: the timer of the first overlay has fired while the second was shown,
\* and the second is still there with its timer pending
C29_Witness ==
    /\ LastOp = "timeout"
    /\ LastCall.arg = <<1>>
    /\ uidPaths(LastCall.pre.body, 2) # <<>>
    /\ OverlayShown(2)
    /\ timers = {2}


\* C30 as claimed: once saveApiKey(k) has completed with success and until the next
\* saveApiKey is called, get('GEMINI_API_KEY') is k, whenever the load that the
\* constructor started completes.
C30_SavedKeyStays ==
    (saved # "" /\ save.state = "idle") => envKey = saved

\* the load, served before the save and resumed after it, has put the key of the
\* earlier session back
C30_LoadOverwritesSavedKey ==
    /\ saved = "key-one"
    /\ storageKey = "key-one"
    /\ save.state = "idle"
    /\ load.state = "done"
    /\ envKey = "key-old"


=============================================================================
